---- MODULE Spec2Model ----
(***************************************************************************)
(* State-machine model of the sharedLLM backend.                           *)
(*                                                                         *)
(*  - the process supervisor (llama_cpp/mod.rs, LlamaCppManager): the      *)
(*    agent (llama-rpc-server) and engine (llama-server) children, the     *)
(*    state mutex, the current session and the events it broadcasts;       *)
(*  - the device registry (permissions/mod.rs, db/queries.rs and the       *)
(*    api/ handlers): devices, roles, allocations, settings.               *)
(*                                                                         *)
(* Every handler is cut at its await points: one action per stretch of     *)
(* code that runs without yielding to another task.                        *)
(***************************************************************************)
EXTENDS Integers, Sequences, FiniteSets, TLC

\* ------------------------------------------------------------------ bounds
MaxCallers == 2      \* concurrent callers of the supervisor
MaxChildren == 2     \* child processes spawned over a behaviour
MaxReqs == 2         \* concurrent registry requests
MaxCalls == 4        \* registry requests served over a behaviour
MaxDevices == 2      \* device ids drawn over a behaviour
MaxMem == 1          \* largest memory value (MB, scaled)
MaxClock == 1        \* ticks of the wall clock
MaxFaults == 1       \* database statements that fail over a behaviour
MaxPeers == 2        \* device ids in one start-inference request
MaxSubs == 1         \* WebSocket connections over a behaviour
MaxEvents == 4       \* telemetry events sent over a behaviour
Capacity == 2        \* entries of the broadcast ring (256 in main.rs, scaled)

VARIABLES
    \* ---- supervisor (LlamaCppState behind Arc<Mutex<..>>) ----
    rpc_process,        \* Option<Child>: NoChild or the agent child
    inference_process,  \* Option<Child>: NoChild or the engine child
    current_session,    \* Option<InferenceSessionInfo>: 0 or the session id
    mutex,              \* 0 when free, else the caller holding the guard
    alive,              \* the children that have not exited (the OS's view)
    nextChild,          \* children spawned so far
    nextSession,        \* session ids drawn so far (uuid v4: always fresh)
    spc,                \* per caller: where its supervisor call stands
    sloc,               \* per caller: locals of the call (and what it saw)
    slast,              \* the start call that returned last, and its result
    \* ---- event bus (broadcast::Sender<WsEvent>) ----
    bus,                \* the events sent, in send order
    \* ---- registry (SQLite tables) ----
    devices,            \* devices table: id -> row or NoRow
    roles,              \* roles table: id -> max_memory_mb or NoRole
    allocations,        \* allocations table, in insertion order
    settings,           \* settings table: key -> value
    nextDevice,         \* device ids drawn so far (uuid v4)
    clock,              \* the wall clock (chrono::Utc::now)
    faults,             \* database statements that have failed so far
    calls,              \* registry requests accepted so far
    req,                \* per request slot: the handler, its arguments,
                        \* its locals and where it stands
    prev,               \* the request that returned last, and its result
    \* ---- handlers without state of their own: the call made last ----
    analysis,           \* analyze_model: its arguments and what it returned
    checked,            \* validate_model_path: its argument and its result
    \* ---- api/cluster.rs proxies and api/backends.rs config handlers ----
    http,               \* the request in flight: handler, position, what it
                        \* has read; and the response returned last
    \* ---- receivers of the event bus (broadcast::Receiver<WsEvent>) ----
    subs,               \* per subscriber: its cursor and what recv returned
    \* ---- api/gpu.rs get_gpu_stats: the call made last ----
    stats               \* what it read and the allocated_mb it answered

\* what the supervisor and the registry both leave alone
pureVars == <<analysis, checked, http, subs, stats>>

supVars == <<rpc_process, inference_process, current_session, mutex, alive,
             nextChild, nextSession, spc, sloc, slast, pureVars>>
regVars == <<devices, roles, allocations, settings, nextDevice, clock, faults,
             calls, req, prev, pureVars>>
vars == <<rpc_process, inference_process, current_session, mutex, alive,
          nextChild, nextSession, spc, sloc, slast, bus,
          devices, roles, allocations, settings, nextDevice, clock, faults,
          calls, req, prev, analysis, checked, http, subs, stats>>

\* ------------------------------------------------------------------ events
\* WsEvent: every variant is a record with the same three fields.
Event(t, i, v) == [type |-> t, id |-> i, val |-> v]

\* broadcast::Sender::send: append to the ring (the result is ignored).
Send(b, e) == Append(b, e)

\* positions of the events of one type about one id
Positions(t, i) == {n \in 1..Len(bus) : bus[n].type = t /\ bus[n].id = i}

\* ============================================================ supervisor

SupCallers == 1..MaxCallers

NoChild == [kind |-> "none", n |-> 0]
Child(k, n) == [kind |-> k, n |-> n]

\* Child::try_wait: Ok(Some(status)) exactly when the child has exited.
try_wait_exited(child) == child \notin alive

\* ---- model paths: sequences of characters -------------------------------
P_valid == <<"/", "m", "/", "a", ".", "G", "G", "U", "F">>
P_empty == <<>>
P_relative == <<".", "/", "a", ".", "g", "g", "u", "f">>
P_dotdot == <<"/", "m", "/", ".", ".", "/", "a", ".", "g", "g", "u", "f">>
P_bin == <<"/", "m", "/", "a", ".", "b", "i", "n">>
P_etc == <<"/", "e", "t", "c", "/", "a", ".", "g", "g", "u", "f">>
ModelPaths == {P_valid, P_empty, P_relative, P_dotdot, P_bin, P_etc}

\* char::to_ascii_lowercase
UpperCase == <<"A", "B", "C", "D", "E", "F", "G", "H", "I", "J", "K", "L", "M", "N", "O", "P", "Q", "R", "S", "T", "U", "V", "W", "X", "Y", "Z">>
LowerCase == <<"a", "b", "c", "d", "e", "f", "g", "h", "i", "j", "k", "l", "m", "n", "o", "p", "q", "r", "s", "t", "u", "v", "w", "x", "y", "z">>
to_ascii_lowercase(c) ==
    IF \E i \in 1..Len(UpperCase) : UpperCase[i] = c
    THEN LowerCase[CHOOSE i \in 1..Len(UpperCase) : UpperCase[i] = c]
    ELSE c

\* str::starts_with
starts_with(p, pre) ==
    /\ Len(p) >= Len(pre)
    /\ \A i \in 1..Len(pre) : p[i] = pre[i]

\* str::contains("..")
contains_dotdot(p) == \E i \in 1..(Len(p) - 1) : p[i] = "." /\ p[i + 1] = "."

\* Path::components drops trailing separators and trailing `.` components:
\* the path up to the end of its last component
RECURSIVE trim_end(_)
trim_end(p) ==
    IF Len(p) > 1 /\ p[Len(p)] = "/"
    THEN trim_end(SubSeq(p, 1, Len(p) - 1))
    ELSE IF Len(p) > 1 /\ p[Len(p)] = "." /\ p[Len(p) - 1] = "/"
    THEN trim_end(SubSeq(p, 1, Len(p) - 1))
    ELSE p

\* Path::file_name: the last component, absent (<<>>) for the root and `..`
file_name_start(p) ==
    IF \E i \in 1..Len(p) : p[i] = "/"
    THEN (CHOOSE i \in 1..Len(p) :
            p[i] = "/" /\ \A j \in (i + 1)..Len(p) : p[j] # "/") + 1
    ELSE 1

file_name(p) ==
    LET t == trim_end(p)
        name == SubSeq(t, file_name_start(t), Len(t))
    IN  IF name = <<".", ".">> THEN <<>> ELSE name

\* Path::extension, lowercased: the part of the file name after its last
\* dot, absent (<<>>) when the name has no dot or only a leading one.
extension(p) ==
    LET name == file_name(p)
        dots == {i \in 2..Len(name) : name[i] = "."}
    IN  IF dots = {} THEN <<>>
        ELSE LET d == CHOOSE i \in dots : \A j \in dots : j <= i
             IN  [k \in 1..(Len(name) - d) |-> to_ascii_lowercase(name[d + k])]

disallowed ==
    { <<"/", "e", "t", "c", "/">>,
      <<"/", "p", "r", "o", "c", "/">>,
      <<"/", "s", "y", "s", "/">>,
      <<"/", "d", "e", "v", "/">>,
      <<"/", "b", "o", "o", "t", "/">>,
      <<"/", "v", "a", "r", "/", "r", "u", "n", "/">>,
      <<"/", "r", "u", "n", "/">>,
      <<"/", "b", "i", "n", "/">>,
      <<"/", "s", "b", "i", "n", "/">>,
      <<"/", "u", "s", "r", "/", "b", "i", "n", "/">>,
      <<"/", "u", "s", "r", "/", "s", "b", "i", "n", "/">> }

\* validate_model_path: TRUE for Ok(()), FALSE for any of the errors
validate_model_path(p) ==
    /\ p # <<>>
    /\ p[1] = "/"
    /\ ~contains_dotdot(p)
    /\ extension(p) = <<"g", "g", "u", "f">>
    /\ \A pre \in disallowed : ~starts_with(p, pre)

\* ---- locals of a supervisor call ----------------------------------------
\* spawned: the child this call spawned; old / oldSession: the engine and
\* session the call found; checkedAlive: whether the spawned child was alive
\* at the liveness check; heldLive: whether the supervisor held a live agent
\* child when the call announced it; response: the session the HTTP handler
\* put in its answer.
NoLocals == [spawned |-> NoChild, old |-> NoChild, oldSession |-> 0,
             session |-> 0, checkedAlive |-> FALSE, heldLive |-> FALSE,
             path |-> <<>>, device_ids |-> <<>>, rpc_addresses |-> <<>>,
             resolved |-> <<>>, response |-> 0]

NoLast == [op |-> "none", ret |-> "none", call |-> NoLocals]

\* a start call returns r; l holds its locals at that point
SupReturn(c, op, r, l) ==
    /\ spc' = [spc EXCEPT ![c] = "idle"]
    /\ sloc' = [sloc EXCEPT ![c] = NoLocals]
    /\ slast' = [op |-> op, ret |-> r, call |-> l]

\* a start call goes on to its next await with locals l
SupContinue(c, pc, l) ==
    /\ spc' = [spc EXCEPT ![c] = pc]
    /\ sloc' = [sloc EXCEPT ![c] = l]
    /\ slast' = slast

\* a start call is taken by the first free caller
FirstCaller(c) ==
    /\ spc[c] = "idle"
    /\ \A b \in 1..(c - 1) : spc[b] # "idle"

\* a child exits on its own (crash, port in use, normal exit)
ChildExit(k) ==
    /\ k \in alive
    /\ alive' = alive \ {k}
    /\ UNCHANGED <<rpc_process, inference_process, current_session, mutex,
                   nextChild, nextSession, spc, sloc, slast, bus>>
    /\ UNCHANGED regVars

\* The reaping block shared by get_status and the watchdog loop body:
\* the state after it, and the events it sends.
ReapRpc == rpc_process # NoChild /\ try_wait_exited(rpc_process)
ReapInf == inference_process # NoChild /\ try_wait_exited(inference_process)

ReapEvents ==
    (IF ReapRpc THEN <<Event("rpc_server_offline", 0, 0)>> ELSE <<>>)
    \o (IF ReapInf /\ current_session # 0
        THEN <<Event("inference_stopped", current_session, 0)>> ELSE <<>>)

\* mutant: the reaper forgets the session of an engine that exited
Reap_keepsSession ==
    /\ rpc_process' = IF ReapRpc THEN NoChild ELSE rpc_process
    /\ inference_process' = IF ReapInf THEN NoChild ELSE inference_process
    /\ current_session' = current_session
    /\ bus' = bus \o ReapEvents

Reap ==
    /\ rpc_process' = IF ReapRpc THEN NoChild ELSE rpc_process
    /\ inference_process' = IF ReapInf THEN NoChild ELSE inference_process
    /\ current_session' = IF ReapInf THEN 0 ELSE current_session
    /\ bus' = bus \o ReapEvents

\* LlamaCppManager::get_status
get_status ==
    /\ mutex = 0
    /\ Reap
    /\ UNCHANGED <<mutex, alive, nextChild, nextSession, spc, sloc, slast>>
    /\ UNCHANGED regVars

\* mutant: the watchdog starts a new agent in place of the one it reaped
WatchdogTick_respawns ==
    /\ mutex = 0
    /\ ReapRpc
    /\ nextChild < MaxChildren
    /\ nextChild' = nextChild + 1
    /\ rpc_process' = Child("rpc", nextChild + 1)
    /\ alive' = alive \cup {Child("rpc", nextChild + 1)}
    /\ bus' = Send(bus, Event("rpc_server_ready", 0, 0))
    /\ UNCHANGED <<inference_process, current_session, mutex, nextSession,
                   spc, sloc, slast>>
    /\ UNCHANGED regVars

\* LlamaCppManager::spawn_watchdog: one iteration of the loop
WatchdogTick ==
    /\ mutex = 0
    /\ Reap
    /\ UNCHANGED <<mutex, alive, nextChild, nextSession, spc, sloc, slast>>
    /\ UNCHANGED regVars


\* LlamaCppManager::is_rpc_running
is_rpc_running ==
    /\ mutex = 0
    /\ rpc_process' = IF ReapRpc THEN NoChild ELSE rpc_process
    /\ bus' = IF ReapRpc THEN Send(bus, Event("rpc_server_offline", 0, 0))
              ELSE bus
    /\ UNCHANGED <<inference_process, current_session, mutex, alive,
                   nextChild, nextSession, spc, sloc, slast>>
    /\ UNCHANGED regVars

\* LlamaCppManager::is_inference_running
\* what it does to the supervisor; it returns TRUE iff a handle is held and
\* its child has not exited
is_inference_running_locked ==
    /\ mutex = 0
    /\ inference_process' = IF ReapInf THEN NoChild ELSE inference_process
    /\ current_session' = IF ReapInf THEN 0 ELSE current_session
    /\ bus' = IF ReapInf /\ current_session # 0
              THEN Send(bus, Event("inference_stopped", current_session, 0))
              ELSE bus
    /\ UNCHANGED <<rpc_process, mutex, alive, nextChild, nextSession,
                   spc, sloc, slast>>

is_inference_running ==
    /\ is_inference_running_locked
    /\ UNCHANGED regVars

\* LlamaCppManager::stop_rpc_server
stop_rpc_server ==
    /\ mutex = 0
    /\ rpc_process' = NoChild
    /\ alive' = alive \ {rpc_process}
    /\ bus' = IF rpc_process # NoChild
              THEN Send(bus, Event("rpc_server_offline", 0, 0)) ELSE bus
    /\ UNCHANGED <<inference_process, current_session, mutex, nextChild,
                   nextSession, spc, sloc, slast>>
    /\ UNCHANGED regVars

\* mutant: the session is read (clone) where the code takes it
stop_inference_keepsSession ==
    /\ mutex = 0
    /\ inference_process' = NoChild
    /\ alive' = alive \ {inference_process}
    /\ current_session' = current_session
    /\ bus' = IF current_session # 0
              THEN Send(bus, Event("inference_stopped", current_session, 0))
              ELSE bus
    /\ UNCHANGED <<rpc_process, mutex, nextChild, nextSession,
                   spc, sloc, slast>>
    /\ UNCHANGED regVars

\* LlamaCppManager::stop_inference
stop_inference ==
    /\ mutex = 0
    /\ inference_process' = NoChild
    /\ alive' = alive \ {inference_process}
    /\ current_session' = 0
    /\ bus' = IF current_session # 0
              THEN Send(bus, Event("inference_stopped", current_session, 0))
              ELSE bus
    /\ UNCHANGED <<rpc_process, mutex, nextChild, nextSession,
                   spc, sloc, slast>>
    /\ UNCHANGED regVars

\* ---- start_rpc_server, cut at its three awaits --------------------------
\* (1) find the binary, pre-clear the port (lsof | kill -9, best effort: it
\*     kills whatever holds the port, or nothing), sleep 400 ms.
start_rpc_preclear(c) ==
    /\ FirstCaller(c)
    /\ \E found \in BOOLEAN :
         IF ~found
         THEN /\ SupReturn(c, "start_rpc_server", "err_not_found", NoLocals)
              /\ alive' = alive
         ELSE /\ SupContinue(c, "rpc_lock", NoLocals)
              /\ \E killed \in BOOLEAN :
                   alive' = IF killed
                            THEN {k \in alive : k.kind # "rpc"}
                            ELSE alive
    /\ UNCHANGED <<rpc_process, inference_process, current_session, mutex,
                   nextChild, nextSession, bus>>
    /\ UNCHANGED regVars

\* mutant: the guard is kept over the 700 ms wait
start_rpc_spawn_keepsGuard(c) ==
    /\ spc[c] = "rpc_lock"
    /\ mutex = 0
    /\ IF rpc_process # NoChild
       THEN /\ SupReturn(c, "start_rpc_server", "ok", sloc[c])
            /\ UNCHANGED <<rpc_process, alive, nextChild, mutex>>
       ELSE \E spawned \in BOOLEAN :
              IF ~spawned
              THEN /\ SupReturn(c, "start_rpc_server", "err_spawn", sloc[c])
                   /\ UNCHANGED <<rpc_process, alive, nextChild, mutex>>
              ELSE /\ nextChild < MaxChildren
                   /\ nextChild' = nextChild + 1
                   /\ mutex' = c
                   /\ rpc_process' = Child("rpc", nextChild + 1)
                   /\ alive' = alive \cup {Child("rpc", nextChild + 1)}
                   /\ SupContinue(c, "rpc_sleep",
                        [sloc[c] EXCEPT
                           !.spawned = Child("rpc", nextChild + 1)])
    /\ UNCHANGED <<inference_process, current_session, nextSession, bus>>
    /\ UNCHANGED regVars

\* (2) lock; no-op when a handle exists; else spawn and store the handle;
\*     drop the guard.
start_rpc_spawn(c) ==
    /\ spc[c] = "rpc_lock"
    /\ mutex = 0
    /\ IF rpc_process # NoChild
       THEN /\ SupReturn(c, "start_rpc_server", "ok", sloc[c])
            /\ UNCHANGED <<rpc_process, alive, nextChild>>
       ELSE \E spawned \in BOOLEAN :
              IF ~spawned
              THEN /\ SupReturn(c, "start_rpc_server", "err_spawn", sloc[c])
                   /\ UNCHANGED <<rpc_process, alive, nextChild>>
              ELSE /\ nextChild < MaxChildren
                   /\ nextChild' = nextChild + 1
                   /\ rpc_process' = Child("rpc", nextChild + 1)
                   /\ alive' = alive \cup {Child("rpc", nextChild + 1)}
                   /\ SupContinue(c, "rpc_sleep",
                        [sloc[c] EXCEPT
                           !.spawned = Child("rpc", nextChild + 1)])
    /\ UNCHANGED <<inference_process, current_session, mutex, nextSession,
                   bus>>
    /\ UNCHANGED regVars

\* (3) after 700 ms: lock again; if a handle is there and its child has
\*     exited, clear it and fail; otherwise announce the server.
start_rpc_check(c) ==
    /\ spc[c] = "rpc_sleep"
    /\ mutex = 0
    /\ LET l == [sloc[c] EXCEPT
                   !.checkedAlive = (sloc[c].spawned \in alive),
                   !.heldLive = (rpc_process \in alive)]
       IN  IF ReapRpc
           THEN /\ rpc_process' = NoChild
                /\ bus' = bus
                /\ SupReturn(c, "start_rpc_server", "err_exited", l)
           ELSE /\ rpc_process' = rpc_process
                /\ bus' = Send(bus, Event("rpc_server_ready", 0, 0))
                /\ SupReturn(c, "start_rpc_server", "ok", l)
    /\ UNCHANGED <<inference_process, current_session, mutex, alive,
                   nextChild, nextSession>>
    /\ UNCHANGED regVars

\* ---- start_inference -----------------------------------------------------
\* (1) validate the path and find the binary, before the lock
\*     l holds the locals of the caller: the path and the endpoint list
start_inference_entry(c, l) ==
    \E found \in BOOLEAN :
       IF ~validate_model_path(l.path)
       THEN SupReturn(c, "start_inference", "err_path", NoLocals)
       ELSE IF ~found
       THEN SupReturn(c, "start_inference", "err_not_found", NoLocals)
       ELSE SupContinue(c, "inf_lock", l)

start_inference_validate(c, path) ==
    /\ FirstCaller(c)
    /\ start_inference_entry(c, [NoLocals EXCEPT !.path = path])
    /\ UNCHANGED <<rpc_process, inference_process, current_session, mutex,
                   alive, nextChild, nextSession, bus>>
    /\ UNCHANGED regVars

\* mutant: the old engine handle is dropped without kill
start_inference_lock_noKill(c) ==
    /\ spc[c] = "inf_lock"
    /\ mutex = 0
    /\ mutex' = c
    /\ inference_process' = NoChild
    /\ alive' = alive
    /\ SupContinue(c, "inf_locked",
                   [sloc[c] EXCEPT !.old = inference_process,
                                   !.oldSession = current_session])
    /\ UNCHANGED <<rpc_process, current_session, nextChild, nextSession, bus>>
    /\ UNCHANGED regVars

\* (2) lock; take the engine handle and kill the child (kill().await runs
\*     with the guard held)
start_inference_lock(c) ==
    /\ spc[c] = "inf_lock"
    /\ mutex = 0
    /\ mutex' = c
    /\ inference_process' = NoChild
    /\ alive' = alive \ {inference_process}
    /\ SupContinue(c, "inf_locked",
                   [sloc[c] EXCEPT !.old = inference_process,
                                   !.oldSession = current_session])
    /\ UNCHANGED <<rpc_process, current_session, nextChild, nextSession, bus>>
    /\ UNCHANGED regVars

\* (3) take the session and announce its stop; spawn; record the new child
\*     and session; announce the start; the guard drops on every return.
\*     Ok(()) goes back to the caller: to one that does nothing more with
\*     it, or (api) to the HTTP handler, which then asks for the session.
start_inference_spawn_for(c, api) ==
    /\ spc[c] = "inf_locked"
    /\ mutex = c
    /\ mutex' = 0
    /\ LET stopped == IF current_session # 0
                      THEN Send(bus, Event("inference_stopped",
                                           current_session, 0))
                      ELSE bus
       IN \E spawned \in BOOLEAN :
            IF ~spawned
            THEN /\ current_session' = 0
                 /\ bus' = stopped
                 /\ SupReturn(c, "start_inference", "err_spawn", sloc[c])
                 /\ UNCHANGED <<inference_process, alive, nextChild,
                                nextSession>>
            ELSE /\ nextChild < MaxChildren
                 /\ nextChild' = nextChild + 1
                 /\ nextSession' = nextSession + 1
                 /\ inference_process' = Child("inf", nextChild + 1)
                 /\ alive' = alive \cup {Child("inf", nextChild + 1)}
                 /\ current_session' = nextSession + 1
                 /\ bus' = Send(stopped,
                        Event("inference_started", nextSession + 1,
                              [model |-> sloc[c].path,
                               devices |-> sloc[c].rpc_addresses]))
                 /\ LET l == [sloc[c] EXCEPT
                                !.spawned = Child("inf", nextChild + 1),
                                !.session = nextSession + 1]
                    IN  IF api THEN SupContinue(c, "api_session", l)
                        ELSE SupReturn(c, "start_inference", "ok", l)
    /\ UNCHANGED rpc_process
    /\ UNCHANGED regVars

start_inference_spawn(c) == start_inference_spawn_for(c, FALSE)

\* ---- api/cluster.rs start_inference, after the manager returned ----------
api_start_inference_spawn(c) == start_inference_spawn_for(c, TRUE)

\* get_current_session: lock, clone current_session (0 is None), unlock;
\* the handler answers 200 with it
get_current_session(c) ==
    /\ spc[c] = "api_session"
    /\ mutex = 0
    /\ SupReturn(c, "api_start_inference", "ok",
                 [sloc[c] EXCEPT !.response = current_session])
    /\ UNCHANGED <<rpc_process, inference_process, current_session, mutex,
                   alive, nextChild, nextSession, bus>>
    /\ UNCHANGED regVars

InitSupervisor ==
    /\ rpc_process = NoChild
    /\ inference_process = NoChild
    /\ current_session = 0
    /\ mutex = 0
    /\ alive = {}
    /\ nextChild = 0
    /\ nextSession = 0
    /\ spc = [c \in SupCallers |-> "idle"]
    /\ sloc = [c \in SupCallers |-> NoLocals]
    /\ slast = NoLast
    /\ bus = <<>>

\* ============================================================== registry

Reqs == 1..MaxReqs
DevIds == 0..MaxDevices          \* 0: an id that was never issued
Addrs == {"ip1", "ip2"}
RoleIds == {"role-guest", "role-1"}
BuiltinRoles == {"role-admin", "role-user", "role-guest"}
MemValues == 0..MaxMem
NoRole == -1

\* a row of the devices table (the columns the handlers read or write)
NoRow == [ip |-> "none", status |-> "absent", role_id |-> "none",
          allocated_memory_mb |-> 0, last_seen |-> 0, rpc_status |-> "none"]

\* Device::new
NewDevice(ip) == [ip |-> ip, status |-> "pending", role_id |-> "none",
                  allocated_memory_mb |-> 0, last_seen |-> clock,
                  rpc_status |-> "offline"]

\* what a request remembers of the call that returned before it started:
\* the address it registered and the id it returned, if it was a register
NoCall == [ip |-> "none", ret |-> 0]
Summary(r) == IF r.op = "register" /\ r.ok
              THEN [ip |-> r.ip, ret |-> r.ret] ELSE NoCall

\* a request slot: handler, arguments, locals; what the call has done so
\* far: dirty (changed a table), stray (changed anything but the row it
\* found), sent (events), statusAtWrite (the row's status when it wrote)
IdleReq == [pc |-> "idle", op |-> "none", id |-> 0, ip |-> "none",
            role |-> "none", mb |-> 0, found |-> NoRow, foundId |-> 0,
            trust |-> FALSE, newRow |-> NoRow, newId |-> 0,
            dirty |-> FALSE, stray |-> FALSE, sent |-> 0,
            statusAtWrite |-> "none", after |-> NoCall]

NoPrev == [op |-> "none", ip |-> "none", ok |-> FALSE, err |-> "none",
           ret |-> 0, found |-> NoRow, dirty |-> FALSE, stray |-> FALSE,
           sent |-> 0, statusAtWrite |-> "none", after |-> NoCall]

NewReq(op, pc, id, ip, role, mb) ==
    [IdleReq EXCEPT !.pc = pc, !.op = op, !.id = id, !.ip = ip,
                    !.role = role, !.mb = mb, !.after = Summary(prev)]

\* the request after this step: has it changed a table, how many events sent
Tracked(r) ==
    [r EXCEPT !.dirty = r.dirty \/ devices' # devices
                        \/ allocations' # allocations \/ roles' # roles
                        \/ settings' # settings,
              !.stray = r.stray
                        \/ (\E i \in DevIds :
                              i # r.foundId /\ devices'[i] # devices[i])
                        \/ allocations' # allocations \/ roles' # roles
                        \/ settings' # settings,
              !.sent = r.sent + (Len(bus') - Len(bus))]

Done(r, ok, err, ret) ==
    [op |-> r.op, ip |-> r.ip, ok |-> ok, err |-> err, ret |-> ret,
     found |-> IF r.op = "register" THEN r.found ELSE NoRow,
     dirty |-> r.dirty, stray |-> r.stray, sent |-> r.sent,
     statusAtWrite |-> r.statusAtWrite, after |-> r.after]

\* the statements of one step: the tables and the bus after it
Effect(devs, allocs, rls, sets, evs) ==
    /\ devices' = devs
    /\ allocations' = allocs
    /\ roles' = rls
    /\ settings' = sets
    /\ bus' = bus \o evs
    /\ clock' = clock
    /\ UNCHANGED supVars

NoEffect == Effect(devices, allocations, roles, settings, <<>>)

\* a handler starts (axum dispatches the request) / resumes after an await
First(p) ==
    /\ req[p].pc = "idle"
    /\ calls < MaxCalls
    /\ calls' = calls + 1

Later(p, pc) ==
    /\ req[p].pc = pc
    /\ calls' = calls

\* the handler awaits its next statement / returns
Continue(p, r) ==
    /\ req' = [req EXCEPT ![p] = Tracked(r)]
    /\ prev' = prev

Return(p, r, ok, err, ret) ==
    /\ req' = [req EXCEPT ![p] = IdleReq]
    /\ prev' = Done(Tracked(r), ok, err, ret)

\* ---- db/queries.rs -------------------------------------------------------
\* UPDATE devices SET <col> = v WHERE id = i: no row, no change
update_device_status(devs, i, v) ==
    IF devs[i] = NoRow THEN devs ELSE [devs EXCEPT ![i].status = v]

update_device_role(devs, i, v) ==
    IF devs[i] = NoRow THEN devs ELSE [devs EXCEPT ![i].role_id = v]

update_device_memory(devs, i, v) ==
    IF devs[i] = NoRow THEN devs
    ELSE [devs EXCEPT ![i].allocated_memory_mb = v]

update_device_last_seen(devs, i) ==
    IF devs[i] = NoRow THEN devs ELSE [devs EXCEPT ![i].last_seen = clock]

delete_device(devs, i) == [devs EXCEPT ![i] = NoRow]

\* the ids of the rows with this address
ids_by_ip(devs, ip) == {i \in DevIds : devs[i] # NoRow /\ devs[i].ip = ip}

\* the devices table keeps addresses unique
unique_ip_conflict(devs, row) == ids_by_ip(devs, row.ip) # {}

\* INSERT OR IGNORE INTO devices: a conflicting row is silently skipped
insert_device(devs, i, row) ==
    IF devs[i] # NoRow \/ unique_ip_conflict(devs, row) THEN devs
    ELSE [devs EXCEPT ![i] = row]

\* INSERT INTO allocations (revoked_at stays NULL)
insert_allocation(allocs, i, mb) ==
    Append(allocs, [device_id |-> i, memory_mb |-> mb, revoked |-> FALSE])

\* get_setting(..).unwrap_or(default)
trust_local_network ==
    settings["trust_local_network"] = "true"

default_role ==
    IF settings["default_role"] = "absent" THEN "role-guest"
    ELSE settings["default_role"]

\* ---- PermissionService::register_device ----------------------------------
\* mutant: the lookup by address is skipped
RegisterLookup_alwaysNew(p, ip) ==
    /\ First(p)
    /\ nextDevice + Cardinality({q \in Reqs : req[q].pc = "reg_settings"})
          < MaxDevices
    /\ NoEffect
    /\ UNCHANGED <<nextDevice, faults>>
    /\ Continue(p, NewReq("register", "reg_settings", 0, ip, "none", 0))

\* (1) get_device_by_ip
RegisterLookup(p, ip) ==
    /\ First(p)
    /\ nextDevice + Cardinality({q \in Reqs : req[q].pc = "reg_settings"})
          < MaxDevices
    /\ NoEffect
    /\ UNCHANGED <<nextDevice, faults>>
    /\ LET r == NewReq("register", "reg_settings", 0, ip, "none", 0)
       IN  IF ids_by_ip(devices, ip) = {}
           THEN Continue(p, r)
           ELSE \E i \in ids_by_ip(devices, ip) :
                  Continue(p, [r EXCEPT !.pc = "reg_touch",
                                        !.found = devices[i], !.foundId = i])

\* (2a) a row exists: update_device_last_seen, return the row read
RegisterTouch(p) ==
    /\ Later(p, "reg_touch")
    /\ Effect(update_device_last_seen(devices, req[p].foundId),
              allocations, roles, settings, <<>>)
    /\ UNCHANGED <<nextDevice, faults>>
    /\ Return(p, req[p], TRUE, "none", req[p].foundId)

\* (2b) no row: read the settings, build the Device (fresh uuid)
RegisterSettings(p) ==
    /\ Later(p, "reg_settings")
    /\ NoEffect
    /\ nextDevice' = nextDevice + 1
    /\ faults' = faults
    /\ Continue(p, [req[p] EXCEPT
          !.pc = "reg_insert",
          !.trust = trust_local_network,
          !.newId = nextDevice + 1,
          !.newRow = IF trust_local_network
                     THEN [NewDevice(req[p].ip) EXCEPT
                             !.status = "approved", !.role_id = default_role]
                     ELSE NewDevice(req[p].ip)])

\* (3) insert_device, broadcast, return the Device built
RegisterInsert(p) ==
    /\ Later(p, "reg_insert")
    /\ Effect(insert_device(devices, req[p].newId, req[p].newRow),
              allocations, roles, settings,
              <<IF req[p].trust
                THEN Event("device_approved", req[p].newId, req[p].ip)
                ELSE Event("device_pending_approval", req[p].newId,
                           req[p].ip)>>)
    /\ UNCHANGED <<nextDevice, faults>>
    /\ Return(p, req[p], TRUE, "none", req[p].newId)

\* ---- api/cluster.rs cluster_status (GET /api/cluster/status) ---------------
update_device_rpc_status(devs, i, v) ==
    IF devs[i] = NoRow THEN devs ELSE [devs EXCEPT ![i].rpc_status = v]

\* (1) list_devices; the probe future of one approved device takes the
\*     row's columns as they were read
ClusterStatusList(p, id) ==
    /\ First(p)
    /\ devices[id].status = "approved"
    /\ NoEffect
    /\ UNCHANGED <<nextDevice, faults>>
    /\ Continue(p, [NewReq("probe", "probe", id, devices[id].ip, "none", 0)
                      EXCEPT !.found = devices[id], !.foundId = id])

\* (2) probe_rpc_device (TCP connect, 2 s timeout) answers reachable or not;
\*     live_status is "ready" or the rpc_status read at (1); it is written
\*     with update_device_rpc_status either way
ClusterStatusProbe(p) ==
    /\ Later(p, "probe")
    /\ UNCHANGED <<nextDevice, faults>>
    /\ \E reachable \in BOOLEAN :
         LET live_status == IF reachable THEN "ready"
                            ELSE req[p].found.rpc_status
         IN  /\ Effect(update_device_rpc_status(devices, req[p].foundId,
                                                 live_status),
                       allocations, roles, settings, <<>>)
             /\ Return(p, req[p], reachable, "none", req[p].foundId)

\* ---- PermissionService::approve_device -----------------------------------
ApproveStatus(p, id, role) ==
    /\ First(p)
    /\ Effect(update_device_status(devices, id, "approved"),
              allocations, roles, settings, <<>>)
    /\ UNCHANGED <<nextDevice, faults>>
    /\ Continue(p, NewReq("approve", "approve_role", id, "none",
                          IF role = "none" THEN "role-guest" ELSE role, 0))

ApproveRole(p) ==
    /\ Later(p, "approve_role")
    /\ Effect(update_device_role(devices, req[p].id, req[p].role),
              allocations, roles, settings, <<>>)
    /\ UNCHANGED <<nextDevice, faults>>
    /\ Continue(p, [req[p] EXCEPT !.pc = "approve_fetch"])

ApproveFetch(p) ==
    /\ Later(p, "approve_fetch")
    /\ UNCHANGED <<nextDevice, faults>>
    /\ IF devices[req[p].id] = NoRow
       THEN /\ NoEffect
            /\ Return(p, req[p], FALSE, "not_found", 0)
       ELSE /\ Effect(devices, allocations, roles, settings,
                      <<Event("device_approved", req[p].id,
                              devices[req[p].id].ip)>>)
            /\ Return(p, req[p], TRUE, "none", req[p].id)

\* ---- PermissionService::deny_device --------------------------------------
DenyDevice(p, id) ==
    /\ First(p)
    /\ Effect(update_device_status(devices, id, "denied"),
              allocations, roles, settings,
              <<Event("device_denied", id, 0)>>)
    /\ UNCHANGED <<nextDevice, faults>>
    /\ Return(p, NewReq("deny", "idle", id, "none", "none", 0),
              TRUE, "none", id)

\* ---- PermissionService::allocate_memory ----------------------------------
\* (1) get_device; the status check
AllocateGet(p, id, mb) ==
    /\ First(p)
    /\ NoEffect
    /\ UNCHANGED <<nextDevice, faults>>
    /\ LET r == [NewReq("allocate", "alloc_write", id, "none", "none", mb)
                   EXCEPT !.found = devices[id], !.foundId = id]
       IN  IF devices[id] = NoRow
           THEN Return(p, r, FALSE, "not_found", 0)
           ELSE IF devices[id].status # "approved"
           THEN Return(p, r, FALSE, "not_approved", 0)
           ELSE IF devices[id].role_id # "none"
           THEN Continue(p, [r EXCEPT !.pc = "alloc_role"])
           ELSE Continue(p, r)

\* mutant: the value is written before the limit is checked
AllocateRole_writesFirst(p) ==
    /\ Later(p, "alloc_role")
    /\ Effect(update_device_memory(devices, req[p].id, req[p].mb),
              allocations, roles, settings, <<>>)
    /\ UNCHANGED <<nextDevice, faults>>
    /\ IF /\ roles[req[p].found.role_id] # NoRole
          /\ req[p].mb > roles[req[p].found.role_id]
       THEN Return(p, req[p], FALSE, "quota", 0)
       ELSE Continue(p, [req[p] EXCEPT !.pc = "alloc_write"])

\* (2) get_role; the limit check (skipped when the role row is missing)
AllocateRole(p) ==
    /\ Later(p, "alloc_role")
    /\ NoEffect
    /\ UNCHANGED <<nextDevice, faults>>
    /\ IF /\ roles[req[p].found.role_id] # NoRole
          /\ req[p].mb > roles[req[p].found.role_id]
       THEN Return(p, req[p], FALSE, "quota", 0)
       ELSE Continue(p, [req[p] EXCEPT !.pc = "alloc_write"])

\* (3) update_device_memory
AllocateWrite(p) ==
    /\ Later(p, "alloc_write")
    /\ Effect(update_device_memory(devices, req[p].id, req[p].mb),
              allocations, roles, settings, <<>>)
    /\ UNCHANGED <<nextDevice, faults>>
    /\ Continue(p, [req[p] EXCEPT
                      !.pc = "alloc_record",
                      !.statusAtWrite = devices[req[p].id].status])

\* (4) insert_allocation, broadcast
AllocateRecord(p) ==
    /\ Later(p, "alloc_record")
    /\ Effect(devices, insert_allocation(allocations, req[p].id, req[p].mb),
              roles, settings,
              <<Event("memory_allocated", req[p].id, req[p].mb)>>)
    /\ UNCHANGED <<nextDevice, faults>>
    /\ Return(p, req[p], TRUE, "none", req[p].id)

\* ---- api/devices.rs: DELETE /api/devices/:id -----------------------------
DeleteDevice(p, id) ==
    /\ First(p)
    /\ Effect(delete_device(devices, id), allocations, roles, settings, <<>>)
    /\ UNCHANGED <<nextDevice, faults>>
    /\ Return(p, NewReq("delete_device", "idle", id, "none", "none", 0),
              TRUE, "none", id)

\* ---- api/permissions.rs --------------------------------------------------
\* POST /api/permissions/roles: upsert under a fresh role id
CreateRole(p, role, max) ==
    /\ First(p)
    /\ roles[role] = NoRole
    /\ Effect(devices, allocations, [roles EXCEPT ![role] = max], settings,
              <<>>)
    /\ UNCHANGED <<nextDevice, faults>>
    /\ Return(p, NewReq("create_role", "idle", 0, "none", role, max),
              TRUE, "none", 0)

\* PUT /api/permissions/roles/:id: upsert under the given id
UpdateRole(p, role, max) ==
    /\ First(p)
    /\ Effect(devices, allocations, [roles EXCEPT ![role] = max], settings,
              <<>>)
    /\ UNCHANGED <<nextDevice, faults>>
    /\ Return(p, NewReq("update_role", "idle", 0, "none", role, max),
              TRUE, "none", 0)

\* DELETE /api/permissions/roles/:id
DeleteRole(p, role) ==
    /\ First(p)
    /\ UNCHANGED <<nextDevice, faults>>
    /\ IF role \in BuiltinRoles
       THEN /\ NoEffect
            /\ Return(p, NewReq("delete_role", "idle", 0, "none", role, 0),
                      FALSE, "forbidden", 0)
       ELSE /\ Effect(devices, allocations, [roles EXCEPT ![role] = NoRole],
                      settings, <<>>)
            /\ Return(p, NewReq("delete_role", "idle", 0, "none", role, 0),
                      TRUE, "none", 0)

\* the keys of the settings table the handlers here read or write
SettingKeys == {"trust_local_network", "default_role", "backend_type",
                "backend_url", "backend_model", "backend_api_key"}

\* ---- api/settings.rs: PUT /api/settings/:key -----------------------------
ALLOWED_KEYS == {"auto_start_ollama", "ollama_host", "mdns_enabled",
                 "trust_local_network", "backend_type", "backend_url",
                 "backend_model", "backend_api_key"}

UpdateSetting(p, key, value) ==
    /\ First(p)
    /\ UNCHANGED <<nextDevice, faults>>
    /\ IF key \notin ALLOWED_KEYS
       THEN /\ NoEffect
            /\ Return(p, NewReq("update_setting", "idle", 0, "none", "none",
                                0), FALSE, "unknown_key", 0)
       ELSE /\ Effect(devices, allocations, roles,
                      [settings EXCEPT ![key] = value], <<>>)
            /\ Return(p, NewReq("update_setting", "idle", 0, "none", "none",
                                0), TRUE, "none", 0)

\* ---- the wall clock advances ---------------------------------------------
Tick ==
    /\ clock < MaxClock
    /\ clock' = clock + 1
    /\ UNCHANGED <<devices, roles, allocations, settings, nextDevice, faults,
                   calls, req, prev, bus>>
    /\ UNCHANGED supVars

\* ---- a statement of a two-write handler fails (I/O error, busy database):
\*      the `?` returns the error to the caller
ApproveStatusFail(p, id, role) ==
    /\ First(p)
    /\ faults < MaxFaults
    /\ faults' = faults + 1
    /\ NoEffect
    /\ UNCHANGED nextDevice
    /\ Return(p, NewReq("approve", "idle", id, "none",
                        IF role = "none" THEN "role-guest" ELSE role, 0),
              FALSE, "db", 0)

ApproveRoleFail(p) ==
    /\ Later(p, "approve_role")
    /\ faults < MaxFaults
    /\ faults' = faults + 1
    /\ NoEffect
    /\ UNCHANGED nextDevice
    /\ Return(p, req[p], FALSE, "db", 0)

AllocateWriteFail(p) ==
    /\ Later(p, "alloc_write")
    /\ faults < MaxFaults
    /\ faults' = faults + 1
    /\ NoEffect
    /\ UNCHANGED nextDevice
    /\ Return(p, req[p], FALSE, "db", 0)

AllocateRecordFail(p) ==
    /\ Later(p, "alloc_record")
    /\ faults < MaxFaults
    /\ faults' = faults + 1
    /\ NoEffect
    /\ UNCHANGED nextDevice
    /\ Return(p, req[p], FALSE, "db", 0)

\* ============================================================ path check
\* paths put together from a directory part, a name and an ending
PathDirs == {<<>>,
             <<"/">>,
             <<".", "/">>,
             <<"/", "m", "/">>,
             <<"/", "e", "t", "c", "/">>,
             <<"/", "m", "/", ".", ".", "/">>,
             <<"/", "u", "s", "r", "/", "b", "i", "n", "/">>,
             <<"/", "/", "e", "t", "c", "/">>,
             <<"/", "m", "o", "d", "e", "l", "s", "/">>,
             <<"/", "h", "o", "m", "e", "/", "u", "/", ".", ".", "/", "e", "t", "c", "/">>,
             <<"/", "e", "t", "c">>}
PathNames == {<<"a">>, <<>>, <<".">>, <<"m", "o", "d", "e", "l">>, <<"m", "i", "n", "i">>, <<"p", "a", "s", "s", "w", "d">>}
PathEnds == {<<>>,
             <<".", "g", "g", "u", "f">>,
             <<".", "G", "G", "U", "F">>,
             <<".", "g", "G", "u", "F">>,
             <<".", "b", "i", "n">>,
             <<".", "g", "g", "u", "f", "/">>,
             <<".", "g", "g", "u", "f", "/", ".">>,
             <<".", "g", "g", "u", "f", ".", "b", "a", "k">>,
             <<".">>,
             <<"g", "g", "u", "f">>}
PathInputs == {d \o n \o x : d \in PathDirs, n \in PathNames, x \in PathEnds}

NoCheck == [called |-> FALSE, path |-> <<>>, ok |-> FALSE]

\* a call of validate_model_path(path)
check_path(path) ==
    /\ checked' = [called |-> TRUE, path |-> path,
                   ok |-> validate_model_path(path)]
    /\ UNCHANGED <<rpc_process, inference_process, current_session, mutex,
                   alive, nextChild, nextSession, spc, sloc, slast, bus>>
    /\ UNCHANGED <<devices, roles, allocations, settings, nextDevice, clock,
                   faults, calls, req, prev, analysis, http, subs, stats>>

\* ======================================================== f64 arithmetic
\* An f64 is held exactly: a mantissa of 53 bits, most significant first and
\* never starting with 0, and the exponent of its last bit; zero has the
\* empty mantissa.  Division and multiplication round to nearest, ties to
\* even, as the hardware does.
F64Bits == 53
ChunkBits == 8
Chunk == 2 ^ ChunkBits
DivChunks == 10      \* chunks of a quotient kept below the point

F64Zero == [m |-> <<>>, e |-> 0]

RECURSIVE Bits(_)
\* a natural number in binary, most significant bit first
Bits(n) == IF n = 0 THEN <<>> ELSE Append(Bits(n \div 2), n % 2)

RECURSIVE BitsToInt(_)
BitsToInt(b) ==
    IF b = <<>> THEN 0 ELSE 2 * BitsToInt(SubSeq(b, 1, Len(b) - 1)) + b[Len(b)]

\* bits on w places
Pad(b, w) == [i \in 1..(w - Len(b)) |-> 0] \o b

\* the bit string plus one (one bit longer when it was all ones)
Inc(b) ==
    LET zeros == {i \in 1..Len(b) : b[i] = 0}
        last == CHOOSE i \in zeros : \A j \in zeros : j <= i
    IN  IF zeros = {} THEN <<1>> \o [i \in 1..Len(b) |-> 0]
        ELSE [i \in 1..Len(b) |->
                 IF i < last THEN b[i] ELSE IF i = last THEN 1 ELSE 0]

StripZeros(b) ==
    LET ones == {i \in 1..Len(b) : b[i] = 1}
        first == CHOOSE i \in ones : \A j \in ones : i <= j
    IN  IF ones = {} THEN <<>> ELSE SubSeq(b, first, Len(b))

\* the f64 nearest to bits * 2^e (plus a nonzero tail below the last bit
\* when sticky), bits starting with 1
RoundToF64(bits, sticky, e) ==
    IF bits = <<>> THEN F64Zero
    ELSE IF Len(bits) <= F64Bits
    THEN [m |-> bits \o [i \in 1..(F64Bits - Len(bits)) |-> 0],
          e |-> e - (F64Bits - Len(bits))]
    ELSE LET m0 == SubSeq(bits, 1, F64Bits)
             half == bits[F64Bits + 1] = 1
             below == sticky \/
                      \E i \in (F64Bits + 2)..Len(bits) : bits[i] = 1
             e0 == e + (Len(bits) - F64Bits)
             up == half /\ (below \/ m0[F64Bits] = 1)
             m1 == IF up THEN Inc(m0) ELSE m0
         IN  IF Len(m1) > F64Bits
             THEN [m |-> SubSeq(m1, 1, F64Bits), e |-> e0 + 1]
             ELSE [m |-> m1, e |-> e0]

\* `n as f64`
FromInt(n) == RoundToF64(Bits(n), FALSE, 0)

RECURSIVE LongDiv(_, _, _, _)
\* k more chunks of ChunkBits bits of r / b below the point (r < b) after
\* the bits of acc, and the remainder left
LongDiv(r, b, k, acc) ==
    IF k = 0 THEN [bits |-> acc, rem |-> r]
    ELSE LongDiv((r * Chunk) % b, b, k - 1,
                 acc \o Pad(Bits((r * Chunk) \div b), ChunkBits))

\* `a as f64 / b as f64`, b > 0
DivF64(a, b) ==
    LET frac == LongDiv(a % b, b, DivChunks, Bits(a \div b))
    IN  IF a = 0 THEN F64Zero
        ELSE RoundToF64(StripZeros(frac.bits), frac.rem # 0,
                        -(DivChunks * ChunkBits))

RECURSIVE MulBits(_, _, _)
\* bits * n + carry, in binary, a chunk of ChunkBits bits at a time
MulBits(b, n, carry) ==
    IF b = <<>> THEN Bits(carry)
    ELSE LET w == IF Len(b) < ChunkBits THEN Len(b) ELSE ChunkBits
             t == BitsToInt(SubSeq(b, Len(b) - w + 1, Len(b))) * n + carry
         IN  MulBits(SubSeq(b, 1, Len(b) - w), n, t \div Chunk)
               \o Pad(Bits(t % Chunk), ChunkBits)

\* `f * (n as f64)`
MulF64(f, n) ==
    IF f.m = <<>> \/ n = 0 THEN F64Zero
    ELSE RoundToF64(StripZeros(MulBits(f.m, n, 0)), FALSE, f.e)

\* the bits of f above the point
Whole(f) ==
    IF f.m = <<>> \/ F64Bits + f.e <= 0 THEN <<>>
    ELSE SubSeq(f.m, 1, F64Bits + f.e)

\* `f as u64`: towards zero (f below 2^53)
Trunc(f) == BitsToInt(Whole(f))

\* `f.round() as i32`: to nearest, halves away from zero (f below 2^53)
Round(f) ==
    LET first == F64Bits + f.e + 1      \* where the halves bit stands
    IN  IF f.m = <<>> \/ first < 1 THEN 0
        ELSE Trunc(f) + (IF first <= F64Bits THEN f.m[first] ELSE 0)

\* `f.min(1.0)`
Min1(f) == IF Whole(f) # <<>> THEN FromInt(1) ELSE f

\* the literal 0.90: the f64 nearest to nine tenths
F64_0_90 == DivF64(9, 10)

\* ================================================================ planner
\* ---- LlamaCppManager::estimate_layers ------------------------------------
estimate_layers(model_size_mb) ==
    IF model_size_mb <= 2047 THEN 22
    ELSE IF model_size_mb <= 5119 THEN 32
    ELSE IF model_size_mb <= 9215 THEN 40
    ELSE IF model_size_mb <= 20479 THEN 48
    ELSE IF model_size_mb <= 40959 THEN 64
    ELSE 80

RECURSIVE Sum(_)
Sum(q) == IF q = <<>> THEN 0 ELSE Head(q) + Sum(Tail(q))

\* mutant: no headroom is taken off
usable_noHeadroom(mb) == mb

\* `(mb as f64 * 0.90) as u64`
usable(mb) == Trunc(MulF64(F64_0_90, mb))

fit_status(model_size_mb, local_free_mb, cluster_free_mb) ==
    LET total_available_mb == local_free_mb + cluster_free_mb
    IN  IF model_size_mb <= usable(local_free_mb) THEN "FitsLocally"
        ELSE IF model_size_mb <= usable(total_available_mb)
                /\ cluster_free_mb > 0 THEN "FitsDistributed"
        ELSE IF model_size_mb <= total_available_mb THEN "PartialGpu"
        ELSE "TooLarge"

\* mutant: every partial-gpu warning is the add-devices one
warnings_alwaysAdd(fit, cluster_free_mb) ==
    IF fit = "PartialGpu" THEN <<"add_cluster_devices">>
    ELSE IF fit = "TooLarge" THEN <<"needs_more_than_available">>
    ELSE <<>>

warnings(fit, cluster_free_mb) ==
    IF fit = "PartialGpu"
    THEN IF cluster_free_mb = 0 THEN <<"add_cluster_devices">>
         ELSE <<"very_tight">>
    ELSE IF fit = "TooLarge" THEN <<"needs_more_than_available">>
    ELSE <<>>

\* mutant: the partial-gpu fraction is not capped at 1.0
partial_frac_noMin(local_free_mb, model_size_mb) ==
    DivF64(local_free_mb, model_size_mb)

partial_frac(local_free_mb, model_size_mb) ==
    Min1(DivF64(local_free_mb, model_size_mb))

recommended_n_gpu_layers(fit, layers, size_mb, local_mb, total_mb) ==
    IF fit = "FitsLocally" THEN -1
    ELSE IF fit = "FitsDistributed"
    THEN IF total_mb > 0
         THEN Round(MulF64(DivF64(local_mb, total_mb), layers))
         ELSE 0
    ELSE IF fit = "PartialGpu"
    THEN IF size_mb > 0
         THEN Round(MulF64(partial_frac(local_mb, size_mb), layers))
         ELSE 0
    ELSE 0

recommended_ctx_size(remaining_mb) ==
    IF remaining_mb <= 1023 THEN 2048
    ELSE IF remaining_mb <= 2047 THEN 4096
    ELSE IF remaining_mb <= 4095 THEN 8192
    ELSE 16384

NoAnalysis == [called |-> FALSE, ok |-> FALSE, path |-> <<>>, size |-> 0,
               local |-> 0, peers |-> <<>>, estimated_layers |-> 0, cluster_free_mb |-> 0,
               total_available_mb |-> 0, fit_status |-> "none",
               recommended_n_gpu_layers |-> 0, recommended_ctx_size |-> 0,
               warnings |-> <<>>]

\* ---- LlamaCppManager::analyze_model --------------------------------------
\* size is what fs::metadata gives for the path, in MB (0: no such file)
analyze_model(path, size, local_free_mb, device_free_mbs) ==
    /\ analysis' =
         IF ~validate_model_path(path) \/ size = 0
         THEN [NoAnalysis EXCEPT !.called = TRUE, !.path = path,
                                 !.size = size, !.local = local_free_mb,
                                 !.peers = device_free_mbs]
         ELSE LET cluster == Sum(device_free_mbs)
                  total == local_free_mb + cluster
                  fit == fit_status(size, local_free_mb, cluster)
                  layers == estimate_layers(size)
              IN  [called |-> TRUE, ok |-> TRUE, path |-> path,
                   size |-> size,
                   local |-> local_free_mb, peers |-> device_free_mbs,
                   estimated_layers |-> layers,
                   cluster_free_mb |-> cluster,
                   total_available_mb |-> total,
                   fit_status |-> fit,
                   recommended_n_gpu_layers |->
                       recommended_n_gpu_layers(fit, layers, size,
                                                local_free_mb, total),
                   recommended_ctx_size |->
                       recommended_ctx_size(IF total >= size
                                            THEN total - size ELSE 0),
                   warnings |-> warnings(fit, cluster)]
    /\ UNCHANGED <<rpc_process, inference_process, current_session, mutex,
                   alive, nextChild, nextSession, spc, sloc, slast, bus>>
    /\ UNCHANGED <<devices, roles, allocations, settings, nextDevice, clock,
                   faults, calls, req, prev, checked, http, subs, stats>>

\* model sizes on both sides of every row of the layer table, free-memory
\* values around them, and peer lists of at most MaxPeers entries
ModelSizes == {0, 1, 20, 2047, 2048, 5119, 5120, 9215, 9216, 20479, 20480,
               40959, 40960}
LocalFree == {0, 1, 15, 22, 2275, 2276, 5688, 10240, 22756, 45512}
PeerFree == {0, 29, 4096, 30000}

\* ---- api/gpu.rs get_gpu_stats (GET /api/gpu) ------------------------------
MaxProviders == 3    \* memory providers detected
MaxAllocMb == 3      \* largest allocated MB of a device row (scaled)
ProviderTotals == {0, 1, 3}

Min(a, b) == IF a < b THEN a ELSE b

\* rows: (status, allocated_memory_mb) of the rows list_devices returned;
\* totals: total_mb of the snapshots; allocated: the allocated_mb answered
NoStats == [called |-> FALSE, rows |-> <<>>, totals |-> <<>>,
            allocated |-> <<>>]

\* .filter(|d| d.status == "approved").map(|d| d.allocated_memory_mb).sum()
RECURSIVE total_allocated(_)
total_allocated(rows) ==
    IF rows = <<>> THEN 0
    ELSE (IF Head(rows).status = "approved" THEN Head(rows).mb ELSE 0)
         + total_allocated(Tail(rows))

\* the loop over the snapshots from index i on: share, allocated_mb =
\* share.min(total_mb), remaining = remaining.saturating_sub(share)
RECURSIVE distribute(_, _, _, _, _)
distribute(totals, i, total, grand_total, remaining) ==
    IF i > Len(totals) THEN <<>>
    ELSE LET share == IF i = Len(totals) THEN remaining
                      ELSE Min((total * totals[i]) \div grand_total,
                               totals[i])
         IN  <<Min(share, totals[i])>>
             \o distribute(totals, i + 1, total, grand_total,
                           IF remaining > share THEN remaining - share ELSE 0)

\* allocated_mb of every snapshot in the answer (0 as aggregated when
\* nothing is allocated or the providers have no memory)
allocated_mb(rows, totals) ==
    IF total_allocated(rows) > 0 /\ totals # <<>> /\ Sum(totals) > 0
    THEN distribute(totals, 1, total_allocated(rows), Sum(totals),
                    total_allocated(rows))
    ELSE [i \in 1..Len(totals) |-> 0]

get_gpu_stats ==
    /\ ~stats.called
    /\ stats' = [stats EXCEPT !.called = TRUE,
                              !.allocated = allocated_mb(stats.rows,
                                                         stats.totals)]
    /\ UNCHANGED <<rpc_process, inference_process, current_session, mutex,
                   alive, nextChild, nextSession, spc, sloc, slast, bus>>
    /\ UNCHANGED <<devices, roles, allocations, settings, nextDevice, clock,
                   faults, calls, req, prev, analysis, checked, http, subs>>

\* ---- api/cluster.rs start_inference (POST /api/cluster/inference/start) ---
\* sequences over S of length at most n
SeqsUpTo(S, n) == UNION {[1..k -> S] : k \in 0..n}

MaxDeviceIds == 20

\* a request body with one id more than the handler accepts
TooManyIds == [n \in 1..(MaxDeviceIds + 1) |-> 0]

\* the status line of the handler's answers
ApiStatus(ret) ==
    CASE ret = "ok" -> 200
      [] ret \in {"400_path", "400_too_many", "400_not_found"} -> 400
      [] OTHER -> 500

\* the endpoint "ip:port" of a device row (rpc_port is a column default, the
\* same for every row here)
endpoint(row) == row.ip

\* (1) validate the path, bound the id list, and start the lookups; with an
\*     empty list the handler runs on into LlamaCppManager::start_inference
ClusterStart(c, path, ids) ==
    /\ FirstCaller(c)
    /\ calls < MaxCalls
    /\ calls' = calls + 1
    /\ IF ~validate_model_path(path)
       THEN SupReturn(c, "api_start_inference", "400_path", NoLocals)
       ELSE IF Len(ids) > MaxDeviceIds
       THEN SupReturn(c, "api_start_inference", "400_too_many", NoLocals)
       ELSE IF ids = <<>>
       THEN start_inference_entry(c, [NoLocals EXCEPT !.path = path])
       ELSE SupContinue(c, "api_resolve",
                        [NoLocals EXCEPT !.path = path, !.device_ids = ids])
    /\ UNCHANGED <<rpc_process, inference_process, current_session, mutex,
                   alive, nextChild, nextSession, bus>>
    /\ UNCHANGED <<devices, roles, allocations, settings, nextDevice, clock,
                   faults, req, prev, pureVars>>

\* (2) one get_device of the loop: push the row's endpoint, whatever the
\*     row's status (`resolved` remembers the status read); after the last
\*     one the handler runs on into LlamaCppManager::start_inference
ClusterResolve(c) ==
    /\ spc[c] = "api_resolve"
    /\ LET id == Head(sloc[c].device_ids)
           row == devices[id]
           l == [sloc[c] EXCEPT
                   !.device_ids = Tail(@),
                   !.rpc_addresses = Append(@, endpoint(row)),
                   !.resolved = Append(@, row.status)]
       IN  IF row = NoRow
           THEN SupReturn(c, "api_start_inference", "400_not_found", NoLocals)
           ELSE IF l.device_ids = <<>>
           THEN start_inference_entry(c, l)
           ELSE SupContinue(c, "api_resolve", l)
    /\ UNCHANGED <<rpc_process, inference_process, current_session, mutex,
                   alive, nextChild, nextSession, bus>>
    /\ UNCHANGED regVars

\* ========================================= proxies and backend configuration
\* Option<String> read from the settings table: "absent" is None
setting_or(key, default) ==
    IF settings[key] = "absent" THEN default ELSE settings[key]

\* .filter(|s| !s.is_empty()): "none" is None
non_empty_setting(key) ==
    IF settings[key] \in {"absent", ""} THEN "none" ELSE settings[key]

\* BackendConfig; api_key "none" is an absent (null) field
NoConfig == [backend_type |-> "none", url |-> "none", model |-> "none",
             api_key |-> "none", api_key_set |-> FALSE]

NoResponse == [status |-> 0, body |-> "none", config |-> NoConfig]

\* what the upstream request came to: not sent, failed (no connection,
\* timeout), or the status the upstream answered
NotContacted == 0
NetErr == -1
UpstreamStatuses == {200, 404, 503}

\* backend_type .. api_key: what the handler has read; running: what
\* is_inference_running returned; upstream: what its request came to
IdleHttp == [pc |-> "idle", op |-> "none", cfg |-> NoConfig,
             backend_type |-> "none", backend_url |-> "none",
             backend_model |-> "none", api_key |-> "none",
             running |-> FALSE, upstream |-> NotContacted,
             resp |-> NoResponse]

HttpStart ==
    /\ http.pc = "idle"
    /\ calls < MaxCalls
    /\ calls' = calls + 1

HttpLater(pc) ==
    /\ http.pc = pc
    /\ calls' = calls

HttpReturn(h, resp) == [h EXCEPT !.pc = "idle", !.resp = resp]

KeepSupervisor ==
    UNCHANGED <<rpc_process, inference_process, current_session, mutex,
                alive, nextChild, nextSession, spc, sloc, slast, bus>>

KeepTables(sets) ==
    /\ settings' = sets
    /\ UNCHANGED <<devices, roles, allocations, nextDevice, clock, faults,
                   req, prev, analysis, checked, subs, stats>>

\* ---- api/cluster.rs chat_completions_proxy and models_proxy --------------
ProxyOps == {"chat_completions_proxy", "models_proxy"}

ErrorResponse(status) == [NoResponse EXCEPT !.status = status,
                                            !.body = "error"]
EmptyList == [NoResponse EXCEPT !.status = 200, !.body = "empty_list"]

\* mutant: a failed upstream request is answered 503
proxy_request_503(out) ==
    IF out = NetErr THEN ErrorResponse(503)
    ELSE [NoResponse EXCEPT !.status = out, !.body = "upstream"]

\* proxy_request: POST to the upstream and stream its answer back
proxy_request(out) ==
    IF out = NetErr THEN ErrorResponse(502)
    ELSE [NoResponse EXCEPT !.status = out, !.body = "upstream"]

\* proxy_get: GET from the upstream and hand its answer back
proxy_get(out) ==
    IF out = NetErr THEN ErrorResponse(502)
    ELSE [NoResponse EXCEPT !.status = out, !.body = "upstream"]

\* (1) read backend_type (default llamacpp)
proxy_backend_type(op) ==
    /\ HttpStart
    /\ LET t == setting_or("backend_type", "llamacpp")
       IN  http' = [IdleHttp EXCEPT
                      !.op = op, !.backend_type = t,
                      !.pc = IF t = "llamacpp" THEN "engine" ELSE "url"]
    /\ KeepSupervisor
    /\ KeepTables(settings)

\* (2, llamacpp) is_inference_running: answer at once when it is not
proxy_engine ==
    /\ HttpLater("engine")
    /\ is_inference_running_locked
    /\ IF inference_process # NoChild /\ ~try_wait_exited(inference_process)
       THEN http' = [http EXCEPT !.pc = "send", !.running = TRUE]
       ELSE http' = HttpReturn(http,
                       IF http.op = "chat_completions_proxy"
                       THEN ErrorResponse(503) ELSE EmptyList)
    /\ KeepTables(settings)

\* (2, external) read backend_url; models_proxy answers at once when empty
proxy_backend_url ==
    /\ HttpLater("url")
    /\ LET u == setting_or("backend_url", "")
       IN  http' = IF http.op = "models_proxy" /\ u = ""
                   THEN HttpReturn([http EXCEPT !.backend_url = u], EmptyList)
                   ELSE [http EXCEPT !.backend_url = u, !.pc = "key"]
    /\ KeepSupervisor
    /\ KeepTables(settings)

\* (3, external) read backend_api_key; chat_completions_proxy tests the url
\*     only now
proxy_api_key ==
    /\ HttpLater("key")
    /\ LET k == non_empty_setting("backend_api_key")
       IN  http' = IF http.op = "chat_completions_proxy"
                      /\ http.backend_url = ""
                   THEN HttpReturn([http EXCEPT !.api_key = k],
                                   ErrorResponse(503))
                   ELSE [http EXCEPT !.api_key = k, !.pc = "send"]
    /\ KeepSupervisor
    /\ KeepTables(settings)

\* (4) the upstream request; the engine answers only while its child lives
proxy_send ==
    /\ HttpLater("send")
    /\ \E out \in UpstreamStatuses \cup {NetErr} :
         /\ (http.backend_type = "llamacpp"
             /\ ~\E k \in alive : k.kind = "inf") => out = NetErr
         /\ http' = HttpReturn([http EXCEPT !.upstream = out],
                               IF http.op = "chat_completions_proxy"
                               THEN proxy_request(out) ELSE proxy_get(out))
    /\ KeepSupervisor
    /\ KeepTables(settings)

\* ---- api/backends.rs set_backend_config ----------------------------------
Configs == [backend_type : {"llamacpp", "openai"}, url : {"", "u1"},
            model : {"m1"}, api_key : {"none", "", "****", "k1"},
            api_key_set : {FALSE}]

set_config_type(cfg) ==
    /\ HttpStart
    /\ http' = [IdleHttp EXCEPT !.op = "set_backend_config", !.cfg = cfg,
                                !.pc = "set_url"]
    /\ KeepSupervisor
    /\ KeepTables([settings EXCEPT !["backend_type"] = cfg.backend_type])

set_config_url ==
    /\ HttpLater("set_url")
    /\ http' = [http EXCEPT !.pc = "set_model"]
    /\ KeepSupervisor
    /\ KeepTables([settings EXCEPT !["backend_url"] = http.cfg.url])

\* mutant: every key that was sent is stored
stores_key_anySent(cfg) == cfg.api_key # "none"

\* if let Some(key) = &cfg.api_key { if !key.is_empty() && key != "****" ..
stores_key(cfg) == cfg.api_key \notin {"none", "", "****"}

\* the key is stored only when sent, non-empty and not the placeholder
set_config_model ==
    /\ HttpLater("set_model")
    /\ http' = IF stores_key(http.cfg)
               THEN [http EXCEPT !.pc = "set_key"]
               ELSE HttpReturn(http, [NoResponse EXCEPT !.status = 200,
                                                        !.body = "ok"])
    /\ KeepSupervisor
    /\ KeepTables([settings EXCEPT !["backend_model"] = http.cfg.model])

set_config_key ==
    /\ HttpLater("set_key")
    /\ http' = HttpReturn(http, [NoResponse EXCEPT !.status = 200,
                                                   !.body = "ok"])
    /\ KeepSupervisor
    /\ KeepTables([settings EXCEPT !["backend_api_key"] = http.cfg.api_key])

\* a set_setting of the handler fails: 500, nothing more is written
set_config_type_fail(cfg) ==
    /\ HttpStart
    /\ faults < MaxFaults
    /\ faults' = faults + 1
    /\ http' = HttpReturn([IdleHttp EXCEPT !.op = "set_backend_config",
                                           !.cfg = cfg], ErrorResponse(500))
    /\ KeepSupervisor
    /\ UNCHANGED <<devices, roles, allocations, settings, nextDevice, clock,
                   req, prev, analysis, checked, subs, stats>>

set_config_write_fail ==
    /\ http.pc \in {"set_url", "set_model", "set_key"}
    /\ faults < MaxFaults
    /\ faults' = faults + 1
    /\ http' = HttpReturn(http, ErrorResponse(500))
    /\ KeepSupervisor
    /\ UNCHANGED <<devices, roles, allocations, settings, nextDevice, clock,
                   calls, req, prev, analysis, checked, subs, stats>>

\* ---- the read endpoints over the settings table, as functions of it ------
\* GET /api/settings: every row of the table, key -> value
list_settings(sets) ==
    [k \in {x \in DOMAIN sets : sets[x] # "absent"} |-> sets[k]]

\* GET /api/backends/config: api_key is never filled in, api_key_set says
\* whether a non-empty key is stored
get_backend_config(sets) ==
    [backend_type |-> IF sets["backend_type"] = "absent" THEN "llamacpp"
                      ELSE sets["backend_type"],
     url |-> IF sets["backend_url"] = "absent" THEN ""
             ELSE sets["backend_url"],
     model |-> IF sets["backend_model"] = "absent" THEN ""
               ELSE sets["backend_model"],
     api_key |-> "none",
     api_key_set |-> sets["backend_api_key"] \notin {"absent", ""}]

\* non-empty values a key may have
KeyValues == {"k1", "k2"}

\* ---- api/backends.rs get_backend_config ----------------------------------
get_config_type ==
    /\ HttpStart
    /\ http' = [IdleHttp EXCEPT
                  !.op = "get_backend_config", !.pc = "get_url",
                  !.backend_type = setting_or("backend_type", "llamacpp")]
    /\ KeepSupervisor
    /\ KeepTables(settings)

get_config_url ==
    /\ HttpLater("get_url")
    /\ http' = [http EXCEPT !.pc = "get_model",
                            !.backend_url = setting_or("backend_url", "")]
    /\ KeepSupervisor
    /\ KeepTables(settings)

get_config_model ==
    /\ HttpLater("get_model")
    /\ http' = [http EXCEPT !.pc = "get_key",
                            !.backend_model = setting_or("backend_model", "")]
    /\ KeepSupervisor
    /\ KeepTables(settings)

\* mutant: the flag says whether a key row exists
api_key_set_isSome == settings["backend_api_key"] # "absent"

\* .map(|s| !s.is_empty()).unwrap_or(false)
api_key_set ==
    IF settings["backend_api_key"] = "absent" THEN FALSE
    ELSE settings["backend_api_key"] # ""

get_config_key ==
    /\ HttpLater("get_key")
    /\ http' = HttpReturn(http,
                 [status |-> 200, body |-> "config",
                  config |-> [backend_type |-> http.backend_type,
                              url |-> http.backend_url,
                              model |-> http.backend_model,
                              api_key |-> "none",
                              api_key_set |-> api_key_set]])
    /\ KeepSupervisor
    /\ KeepTables(settings)

\* the values a client writes under each backend key
SettingValues(key) ==
    CASE key = "backend_type" -> {"llamacpp", "openai"}
      [] key = "backend_url" -> {"", "u1"}
      [] key = "backend_model" -> {"m1"}
      [] key = "backend_api_key" -> {"", "****", "k1"}

\* ======================================================= event bus readers
\* 0 is the auto-register task that main subscribes before it serves;
\* 1..MaxSubs are WebSocket connections (api/ws_handler.rs handle_socket)
SubIds == 0..MaxSubs

\* start: the length of the bus at subscribe; next: the entries read or
\* skipped so far; got: what each recv returned, in order. state / why are
\* the reader's task (send_task for a connection). Of a connection also:
\* reader: its recv_task; handler: handle_socket itself; peer: the client
\* (live, stalled: connected but not reading, gone: connection closed);
\* closeSent: a Close frame of the client waits to be read; writing:
\* send_task is inside `sender.send(..).await`
NoSub == [state |-> "none", why |-> "none", start |-> 0, next |-> 0,
          got |-> <<>>, reader |-> "none", handler |-> "none",
          peer |-> "none", closeSent |-> FALSE, writing |-> FALSE]

\* broadcast::Sender::subscribe: the cursor starts at the tail
subscribe == [NoSub EXCEPT !.state = "open", !.start = Len(bus),
                           !.next = Len(bus)]

\* broadcast::Receiver::recv with something to read: Err(Lagged(n)) when
\* the entry at the cursor was overwritten (the ring keeps the last Capacity
\* entries), the cursor moving to the oldest entry kept; else the entry
\* (pos: the cursor after the call)
recv(r) ==
    IF Len(bus) - r.next > Capacity
    THEN [kind |-> "lagged", n |-> Len(bus) - Capacity - r.next,
          pos |-> Len(bus) - Capacity, event |-> Event("none", 0, 0)]
    ELSE [kind |-> "event", n |-> 0, pos |-> r.next + 1,
          event |-> bus[r.next + 1]]

after_recv(r) == [r EXCEPT !.next = recv(r).pos, !.got = Append(@, recv(r))]

KeepAllButSubs ==
    /\ KeepSupervisor
    /\ UNCHANGED <<devices, roles, allocations, settings, nextDevice, clock,
                   faults, calls, req, prev, analysis, checked, http, stats>>

\* main: the telemetry task sends MemoryStats every 3 seconds
memory_stats_tick ==
    /\ Len(bus) < MaxEvents
    /\ bus' = Send(bus, Event("memory_stats", 0, 0))
    /\ UNCHANGED supVars
    /\ UNCHANGED regVars

\* handle_socket: subscribe, then spawn send_task
ws_subscribe(s) ==
    /\ s \in 1..MaxSubs
    /\ subs[s].state = "none"
    /\ \A t \in 1..(s - 1) : subs[t].state # "none"
    /\ subs' = [subs EXCEPT ![s] = subscribe]
    /\ KeepAllButSubs

\* send_task, the event arm of its select: Lagged -> continue; an event is
\* written to the socket, and the task ends when that write fails
ws_recv(s) ==
    /\ s \in 1..MaxSubs
    /\ subs[s].state = "open"
    /\ Len(bus) > subs[s].next
    /\ IF recv(subs[s]).kind = "lagged"
       THEN subs' = [subs EXCEPT ![s] = after_recv(@)]
       ELSE \E written \in BOOLEAN :
              subs' = [subs EXCEPT ![s] =
                         IF written THEN after_recv(@)
                         ELSE [after_recv(@) EXCEPT !.state = "ended",
                                                    !.why = "client"]]
    /\ KeepAllButSubs

\* main, the auto-register task: `while let Ok(event) = rx.recv().await`
\* ends at the first Err, Lagged included. Its body registers the device of
\* a DeviceDiscovered event and does nothing for the events sent here.
auto_register_recv ==
    /\ subs[0].state = "open"
    /\ Len(bus) > subs[0].next
    /\ subs' = [subs EXCEPT ![0] =
                 IF recv(@).kind = "lagged"
                 THEN [after_recv(@) EXCEPT !.state = "ended",
                                            !.why = "lagged"]
                 ELSE after_recv(@)]
    /\ KeepAllButSubs

InitSubs == subs = [s \in SubIds |-> IF s = 0 THEN subscribe ELSE NoSub]

\* ---- api/ws_handler.rs handle_socket, both tasks --------------------------
\* split the socket, subscribe, spawn send_task and recv_task, and wait in
\* the select on their JoinHandles
handle_socket(s) ==
    /\ s \in 1..MaxSubs
    /\ subs[s].state = "none"
    /\ subs' = [subs EXCEPT ![s] = [subscribe EXCEPT !.reader = "running",
                                                     !.handler = "waiting",
                                                     !.peer = "live"]]
    /\ KeepAllButSubs

\* the client: sends a Close frame; stops reading without closing; or the
\* connection ends (closed or reset)
client_close(s) ==
    /\ subs[s].peer \in {"live", "stalled"}
    /\ ~subs[s].closeSent
    /\ subs' = [subs EXCEPT ![s].closeSent = TRUE]
    /\ KeepAllButSubs

client_stall(s) ==
    /\ subs[s].peer = "live"
    /\ subs' = [subs EXCEPT ![s].peer = "stalled"]
    /\ KeepAllButSubs

client_gone(s) ==
    /\ subs[s].peer \in {"live", "stalled"}
    /\ subs' = [subs EXCEPT ![s].peer = "gone"]
    /\ KeepAllButSubs

\* send_task, the event arm of its select: Lagged -> continue; an event is
\* serialized and `sender.send(..).await` begins; a send begun after the
\* client's Close frame was read is refused at once (break)
send_task_recv(s) ==
    /\ subs[s].state = "open" /\ subs[s].handler # "none"
    /\ ~subs[s].writing
    /\ Len(bus) > subs[s].next
    /\ subs' = [subs EXCEPT ![s] =
                 IF recv(subs[s]).kind = "lagged" THEN after_recv(@)
                 ELSE IF subs[s].reader = "done" /\ subs[s].closeSent
                 THEN [after_recv(@) EXCEPT !.state = "ended",
                                            !.why = "client"]
                 ELSE [after_recv(@) EXCEPT !.writing = TRUE]]
    /\ KeepAllButSubs

\* `sender.send(..).await` resolves: Ok when the client takes the bytes, Err
\* (break) when the connection has ended; it stays pending while the client
\* is connected and does not read
send_task_write(s) ==
    /\ subs[s].state = "open" /\ subs[s].writing
    /\ subs[s].peer \in {"live", "gone"}
    /\ subs' = [subs EXCEPT ![s] =
                 IF subs[s].peer = "live" THEN [@ EXCEPT !.writing = FALSE]
                 ELSE [@ EXCEPT !.writing = FALSE, !.state = "ended",
                                !.why = "client"]]
    /\ KeepAllButSubs

\* send_task, the pong arm of its select: pong_rx.recv() is None once
\* recv_task, the owner of pong_tx, has ended -> break (event_rx is dropped)
send_task_pong_closed(s) ==
    /\ subs[s].state = "open" /\ subs[s].handler # "none"
    /\ ~subs[s].writing
    /\ subs[s].reader = "done"
    /\ subs' = [subs EXCEPT ![s].state = "ended", ![s].why = "recv_task"]
    /\ KeepAllButSubs

\* recv_task: `receiver.next().await` yields the Close frame (break) or None
\* (the connection has ended). Its third exit, a Ping it cannot forward
\* because send_task has ended, needs a client still connected after
\* send_task ended, and send_task ends only after recv_task or with the
\* connection.
recv_task_next(s) ==
    /\ subs[s].reader = "running"
    /\ subs[s].closeSent \/ subs[s].peer = "gone"
    /\ subs' = [subs EXCEPT ![s].reader = "done"]
    /\ KeepAllButSubs

\* the select of handle_socket returns when either JoinHandle is ready; the
\* other JoinHandle is dropped, which detaches its task and leaves it running
handle_socket_select(s) ==
    /\ subs[s].handler = "waiting"
    /\ subs[s].state = "ended" \/ subs[s].reader = "done"
    /\ subs' = [subs EXCEPT ![s].handler = "returned"]
    /\ KeepAllButSubs

\* discovery::browse, the spawn_blocking loop: a resolved service of another
\* host is sent as DeviceDiscovered (main starts the loop before it builds
\* the state and before the auto-register task subscribes)
browse_discovered(ip) ==
    /\ Len(bus) < MaxEvents
    /\ bus' = Send(bus, Event("device_discovered", 0, ip))
    /\ UNCHANGED supVars
    /\ UNCHANGED regVars

\* main reaches `let mut rx = event_tx.subscribe()` of the auto-register task
auto_register_subscribe ==
    /\ subs[0].state = "none"
    /\ subs' = [subs EXCEPT ![0] = subscribe]
    /\ KeepAllButSubs

\* main just after discovery::browse returned: nobody has subscribed
InitStartup == subs = [s \in SubIds |-> NoSub]

\* ---- specifications ------------------------------------------------------
\* the pool after migrations: no devices, no allocation records, no settings
\* rows the handlers read; the guest role is seeded (api/permissions.rs lists
\* it among the built-in roles), here with the largest quota of MemValues
InitRegistry ==
    /\ devices = [i \in DevIds |-> NoRow]
    /\ roles = [r \in RoleIds |-> IF r = "role-guest" THEN MaxMem ELSE NoRole]
    /\ allocations = <<>>
    /\ settings = [k \in SettingKeys |-> "absent"]
    /\ nextDevice = 0
    /\ clock = 0
    /\ faults = 0
    /\ calls = 0
    /\ req = [p \in Reqs |-> IdleReq]
    /\ prev = NoPrev

Quiet == \A q \in Reqs : req[q].pc = "idle"

\* the first step of each handler, for the request slot p: the handlers of
\* api/devices.rs, then those of api/permissions.rs and api/settings.rs
AcceptDevice(p) ==
    \/ \E ip \in Addrs : RegisterLookup(p, ip)
    \/ \E id \in 0..nextDevice, role \in RoleIds \cup {"none"} :
         ApproveStatus(p, id, role)
    \/ \E id \in 0..nextDevice : DenyDevice(p, id)
    \/ \E id \in 0..nextDevice, mb \in MemValues : AllocateGet(p, id, mb)
    \/ \E id \in 0..nextDevice : DeleteDevice(p, id)

AcceptAdmin(p) ==
    \/ \E role \in RoleIds, max \in MemValues : CreateRole(p, role, max)
    \/ \E role \in RoleIds, max \in MemValues : UpdateRole(p, role, max)
    \/ \E role \in RoleIds : DeleteRole(p, role)
    \/ \E key \in {"trust_local_network", "default_role"},
          value \in {"true", "false"} : UpdateSetting(p, key, value)

\* the steps after an await
Resume(p) ==
    \/ RegisterTouch(p)
    \/ RegisterSettings(p)
    \/ RegisterInsert(p)
    \/ ApproveRole(p)
    \/ ApproveFetch(p)
    \/ AllocateRole(p)
    \/ AllocateWrite(p)
    \/ AllocateRecord(p)

Fail(p) ==
    \/ \E id \in 0..nextDevice, role \in RoleIds \cup {"none"} :
         ApproveStatusFail(p, id, role)
    \/ ApproveRoleFail(p)
    \/ AllocateWriteFail(p)
    \/ AllocateRecordFail(p)

\* requests served one after the other
NextRegistry ==
    \/ Quiet /\ AcceptDevice(1)
    \/ Quiet /\ AcceptAdmin(1)
    \/ Resume(1)
    \/ Tick

\* device requests served concurrently, each in the first free slot
FirstFree(p) == req[p].pc = "idle" /\ \A q \in 1..(p - 1) : req[q].pc # "idle"

NextRegistryConc ==
    \/ \E p \in Reqs : FirstFree(p) /\ AcceptDevice(p)
    \/ \E p \in Reqs : Resume(p)

\* registrations only (the auto-register task of main.rs and manual POST
\* /api/devices requests), served concurrently
NextRegistration ==
    \/ \E p \in Reqs : FirstFree(p) /\ \E ip \in Addrs : RegisterLookup(p, ip)
    \/ \E p \in Reqs : RegisterTouch(p)
    \/ \E p \in Reqs : RegisterSettings(p)
    \/ \E p \in Reqs : RegisterInsert(p)
    \/ Tick

\* devices registered and approved one request at a time, and status
\* requests probing them beside each other
NextProbe ==
    \/ Quiet /\ \E ip \in Addrs : RegisterLookup(1, ip)
    \/ Quiet /\ \E id \in 0..nextDevice, role \in RoleIds \cup {"none"} :
                  ApproveStatus(1, id, role)
    \/ RegisterTouch(1)
    \/ RegisterSettings(1)
    \/ RegisterInsert(1)
    \/ ApproveRole(1)
    \/ ApproveFetch(1)
    \/ \E p \in Reqs : FirstFree(p) /\ \E id \in 1..nextDevice :
                          ClusterStatusList(p, id)
    \/ \E p \in Reqs : ClusterStatusProbe(p)

\* memory_mb of AllocateMemoryRequest is an i64: any integer may be asked
RequestedMb == (0 - 1)..MaxMem

\* the device handlers one request at a time, allocate with any integer
NextAllocate ==
    \/ Quiet /\ \E ip \in Addrs : RegisterLookup(1, ip)
    \/ Quiet /\ \E id \in 0..nextDevice, role \in RoleIds \cup {"none"} :
                  ApproveStatus(1, id, role)
    \/ Quiet /\ \E id \in 0..nextDevice, mb \in RequestedMb :
                  AllocateGet(1, id, mb)
    \/ Resume(1)

\* requests served one after the other, statements may fail
NextRegistryFault ==
    \/ Quiet /\ AcceptDevice(1)
    \/ Quiet /\ AcceptAdmin(1)
    \/ Resume(1)
    \/ Fail(1)
    \/ Tick

InitPure ==
    /\ analysis = NoAnalysis
    /\ checked = NoCheck
    /\ http = IdleHttp
    /\ stats = NoStats
    /\ InitSubs

Init == InitSupervisor /\ InitRegistry /\ InitPure

NextSupervisor ==
    \/ \E k \in alive : ChildExit(k)
    \/ WatchdogTick
    \/ get_status
    \/ is_rpc_running
    \/ is_inference_running
    \/ stop_rpc_server
    \/ stop_inference
    \/ \E c \in SupCallers :
         \/ start_rpc_preclear(c)
         \/ start_rpc_spawn(c)
         \/ start_rpc_check(c)
         \/ \E path \in ModelPaths : start_inference_validate(c, path)
         \/ start_inference_lock(c)
         \/ start_inference_spawn(c)

SpecSupervisor == Init /\ [][NextSupervisor]_vars

\* the running service left to itself: main builds the manager and spawns
\* no task around it (LlamaCppManager::spawn_watchdog has no caller), and no
\* client asks for the status; start and stop requests come as they may.
NextService ==
    \/ \E k \in alive : ChildExit(k)
    \/ stop_rpc_server
    \/ stop_inference
    \/ \E c \in SupCallers :
         \/ start_rpc_preclear(c)
         \/ start_rpc_spawn(c)
         \/ start_rpc_check(c)
         \/ \E path \in ModelPaths : start_inference_validate(c, path)
         \/ start_inference_lock(c)
         \/ start_inference_spawn(c)

\* the runtime goes on with every call it has accepted; a call waiting for
\* the mutex gets it (tokio::sync::Mutex hands the lock out in FIFO order),
\* and the call holding it goes on to release it
FairCalls ==
    \A c \in SupCallers :
       /\ SF_vars(start_rpc_spawn(c))
       /\ SF_vars(start_rpc_check(c))
       /\ SF_vars(start_inference_lock(c))
       /\ WF_vars(start_inference_spawn(c))

SpecService == Init /\ [][NextService]_vars /\ FairCalls

\* every supervisor operation, fairly scheduled
SpecSupervisorFair == Init /\ [][NextSupervisor]_vars /\ FairCalls
SpecRegistry == Init /\ [][NextRegistry]_vars
SpecRegistryConc == Init /\ [][NextRegistryConc]_vars
SpecRegistryFault == Init /\ [][NextRegistryFault]_vars
SpecRegistration == Init /\ [][NextRegistration]_vars
SpecProbe == Init /\ [][NextProbe]_vars
SpecAllocate == Init /\ [][NextAllocate]_vars

\* the device lifecycle handlers, one at a time, beside start-inference
\* requests and the engine child
NextCluster ==
    \/ Quiet /\ \E ip \in Addrs : RegisterLookup(1, ip)
    \/ Quiet /\ \E id \in 0..nextDevice, role \in RoleIds \cup {"none"} :
                  ApproveStatus(1, id, role)
    \/ Quiet /\ \E id \in 0..nextDevice : DenyDevice(1, id)
    \/ RegisterTouch(1)
    \/ RegisterSettings(1)
    \/ RegisterInsert(1)
    \/ ApproveRole(1)
    \/ ApproveFetch(1)
    \/ \E path \in ModelPaths, ids \in SeqsUpTo(0..nextDevice, MaxPeers) :
         ClusterStart(1, path, ids)
    \/ ClusterResolve(1)
    \/ start_inference_lock(1)
    \/ start_inference_spawn(1)

SpecCluster == Init /\ [][NextCluster]_vars

\* POST /api/cluster/inference/start requests beside each other, beside
\* stop requests, status queries and the engine child
NextInference ==
    \/ \E k \in alive : ChildExit(k)
    \/ get_status
    \/ stop_inference
    \/ \E c \in SupCallers :
         \/ \E path \in ModelPaths,
                ids \in SeqsUpTo(0..nextDevice, MaxPeers) \cup {TooManyIds} :
              ClusterStart(c, path, ids)
         \/ ClusterResolve(c)
         \/ start_inference_lock(c)
         \/ api_start_inference_spawn(c)
         \/ get_current_session(c)

SpecInference == Init /\ [][NextInference]_vars

\* the planner applied once to each input of the sets above
InitPlanner ==
    /\ InitSupervisor
    /\ InitRegistry
    /\ checked = NoCheck
    /\ http = IdleHttp
    /\ stats = NoStats
    /\ InitSubs
    /\ \E path \in {P_valid, P_bin}, size \in ModelSizes, local \in LocalFree,
          peers \in SeqsUpTo(PeerFree, MaxPeers) :
            analysis = [NoAnalysis EXCEPT !.path = path, !.size = size,
                                          !.local = local, !.peers = peers]

NextPlanner ==
    /\ ~analysis.called
    /\ analyze_model(analysis.path, analysis.size, analysis.local,
                     analysis.peers)

SpecPlanner == InitPlanner /\ [][NextPlanner]_vars

\* get_gpu_stats applied once to each table of device rows and each list of
\* provider sizes
InitGpu ==
    /\ InitSupervisor
    /\ InitRegistry
    /\ analysis = NoAnalysis
    /\ checked = NoCheck
    /\ http = IdleHttp
    /\ InitSubs
    /\ \E rows \in SeqsUpTo([status : {"approved", "pending"},
                              mb : 0..MaxAllocMb], MaxDevices),
          totals \in SeqsUpTo(ProviderTotals, MaxProviders) :
            stats = [NoStats EXCEPT !.rows = rows, !.totals = totals]

NextGpu == get_gpu_stats

SpecGpu == InitGpu /\ [][NextGpu]_vars

\* the path check applied once to each path of PathInputs
InitPaths ==
    /\ InitSupervisor
    /\ InitRegistry
    /\ analysis = NoAnalysis
    /\ http = IdleHttp
    /\ stats = NoStats
    /\ InitSubs
    /\ \E path \in PathInputs : checked = [NoCheck EXCEPT !.path = path]

NextPaths ==
    /\ ~checked.called
    /\ check_path(checked.path)

SpecPaths == InitPaths /\ [][NextPaths]_vars

\* the two proxies beside writes of the backend type and url and the engine
\* child's life
NextProxy ==
    \/ Quiet /\ \E key \in {"backend_type", "backend_url"} :
                  \E value \in SettingValues(key) : UpdateSetting(1, key, value)
    \/ start_inference_validate(1, P_valid)
    \/ start_inference_lock(1)
    \/ start_inference_spawn(1)
    \/ \E k \in alive : ChildExit(k)
    \/ \E op \in ProxyOps : proxy_backend_type(op)
    \/ proxy_engine
    \/ proxy_backend_url
    \/ proxy_api_key
    \/ proxy_send

SpecProxy == Init /\ [][NextProxy]_vars

\* writes and reads of the backend configuration, one request at a time
NextBackend ==
    \/ /\ http.pc = "idle"
       /\ \E key \in {"backend_type", "backend_url", "backend_model",
                       "backend_api_key"} :
            \E value \in SettingValues(key) : UpdateSetting(1, key, value)
    \/ \E cfg \in Configs : set_config_type(cfg)
    \/ set_config_url
    \/ set_config_model
    \/ set_config_key
    \/ \E cfg \in Configs : set_config_type_fail(cfg)
    \/ set_config_write_fail
    \/ get_config_type
    \/ get_config_url
    \/ get_config_model
    \/ get_config_key

SpecBackend == Init /\ [][NextBackend]_vars

\* the telemetry sender beside the readers of the bus
NextBus ==
    \/ memory_stats_tick
    \/ \E s \in 1..MaxSubs : ws_subscribe(s)
    \/ \E s \in 1..MaxSubs : ws_recv(s)
    \/ auto_register_recv

SpecBus == Init /\ [][NextBus]_vars

\* the service from the moment browsing starts: the browse thread and the
\* telemetry task send, main goes on to subscribe the auto-register task,
\* which then reads; main and the task are scheduled fairly
NextDiscovery ==
    \/ \E ip \in Addrs : browse_discovered(ip)
    \/ memory_stats_tick
    \/ auto_register_subscribe
    \/ auto_register_recv

\* WebSocket connections: the bus fills, clients behave as they like, the
\* runtime runs every spawned task and the handler whenever they can go on
NextSocket ==
    \/ memory_stats_tick
    \/ \E s \in 1..MaxSubs :
         \/ handle_socket(s)
         \/ client_close(s)
         \/ client_stall(s)
         \/ client_gone(s)
         \/ send_task_recv(s)
         \/ send_task_write(s)
         \/ send_task_pong_closed(s)
         \/ recv_task_next(s)
         \/ handle_socket_select(s)

FairTasks ==
    \A s \in 1..MaxSubs :
       /\ WF_vars(send_task_recv(s))
       /\ WF_vars(send_task_write(s))
       /\ WF_vars(send_task_pong_closed(s))
       /\ WF_vars(recv_task_next(s))
       /\ WF_vars(handle_socket_select(s))

SpecSocket == Init /\ [][NextSocket]_vars /\ FairTasks

InitDiscovery ==
    /\ InitSupervisor
    /\ InitRegistry
    /\ analysis = NoAnalysis
    /\ checked = NoCheck
    /\ http = IdleHttp
    /\ stats = NoStats
    /\ InitStartup

FairDiscovery ==
    /\ WF_vars(auto_register_subscribe)
    /\ WF_vars(auto_register_recv)

SpecDiscovery == InitDiscovery /\ [][NextDiscovery]_vars /\ FairDiscovery


\* ======================================================= supervisor claims

\* sessions announced as started and not yet announced as stopped
OpenSessions ==
    {s \in 1..nextSession :
        Positions("inference_started", s) # {}
        /\ Positions("inference_stopped", s) = {}}

\* C1: whenever the state mutex is free, the engine handle is present iff a
\* session record is present, and the only session that is started and not
\* stopped is that one record.
C1_HandleIffSession ==
    mutex = 0 =>
        /\ (inference_process # NoChild) <=> (current_session # 0)
        /\ OpenSessions = IF current_session # 0 THEN {current_session} ELSE {}

\* a start-engine whose spawn failed while a session was running has returned
C1_Witness ==
    /\ slast.op = "start_inference" /\ slast.ret = "err_spawn"
    /\ slast.call.oldSession # 0
    /\ mutex = 0 /\ inference_process = NoChild

\* C2: a start-engine that found session S_old and succeeded has killed the
\* old engine and put inference_stopped{S_old} on the bus before
\* inference_started{S_new}, S_new # S_old; and in every state, inside the
\* critical section too, at most one engine child is alive and at most one
\* session is open.
C2_RestartStopsOldFirst ==
    /\ Cardinality({k \in alive : k.kind = "inf"}) <= 1
    /\ Cardinality(OpenSessions) <= 1
    /\ (slast.op = "start_inference" /\ slast.ret = "ok"
        /\ slast.call.oldSession # 0) =>
          /\ slast.call.old # NoChild
          /\ slast.call.old \notin alive
          /\ slast.call.session # slast.call.oldSession
          /\ \E i \in Positions("inference_stopped", slast.call.oldSession) :
             \E j \in Positions("inference_started", slast.call.session) :
                i < j

\* a start-engine that replaced a running session has returned success
C2_Witness ==
    /\ slast.op = "start_inference" /\ slast.ret = "ok"
    /\ slast.call.oldSession # 0

\* C3 (as claimed): a start-agent call that spawned a child returns success
\* iff that child was alive at the liveness check, and it announces
\* rpc_server_ready only while the supervisor holds a live agent child.
C3_StartAgentIffAlive ==
    (slast.op = "start_rpc_server" /\ slast.call.spawned # NoChild) =>
        /\ (slast.ret = "ok") <=> slast.call.checkedAlive
        /\ (slast.ret = "ok") => slast.call.heldLive

\* ========================================================= registry claims

\* total memory of the non-revoked allocation records of a device
RECURSIVE SumAllocations(_, _)
SumAllocations(allocs, i) ==
    IF allocs = <<>> THEN 0
    ELSE (IF Head(allocs).device_id = i /\ ~Head(allocs).revoked
          THEN Head(allocs).memory_mb ELSE 0)
         + SumAllocations(Tail(allocs), i)

\* C4 (as claimed): every device whose role id is set has allocated MB at
\* most the max_memory_mb of the role it references.
C4_AllocatedWithinRoleMax ==
    \A i \in DevIds :
        (devices[i] # NoRow /\ devices[i].role_id # "none"
         /\ roles[devices[i].role_id] # NoRole) =>
            devices[i].allocated_memory_mb <= roles[devices[i].role_id]

\* C5 (as claimed): an allocate that took effect wrote its value while the
\* device's status was approved.
C5_AllocateOnlyWhileApproved ==
    (prev.op = "allocate" /\ prev.ok) => prev.statusAtWrite = "approved"

\* C6 (as claimed): between requests, each device's stored allocated MB is
\* the sum of the memory MB of its non-revoked allocation records.
C6_AllocatedEqualsSum ==
    Quiet =>
        \A i \in DevIds :
            devices[i] # NoRow =>
                devices[i].allocated_memory_mb = SumAllocations(allocations, i)

\* C7: an allocate rejected for quota, status or unknown id returns an
\* error, has changed no table and has sent no event.
C7_RejectedAllocateNoEffect ==
    (prev.op = "allocate"
     /\ prev.err \in {"quota", "not_approved", "not_found"}) =>
        /\ ~prev.ok
        /\ ~prev.dirty
        /\ prev.sent = 0

\* an allocate above the role's maximum has been rejected
C7_Witness ==
    /\ prev.op = "allocate" /\ prev.err = "quota"
    /\ \E i \in DevIds : devices[i] # NoRow /\ devices[i].status = "approved"

\* the devices table shows what a registry event reports
Reflects(e, devs) ==
    CASE e.type = "device_pending_approval" ->
            devs[e.id] # NoRow /\ devs[e.id].status = "pending"
      [] e.type = "device_approved" ->
            devs[e.id] # NoRow /\ devs[e.id].status = "approved"
      [] e.type = "device_denied" ->
            devs[e.id] # NoRow /\ devs[e.id].status = "denied"
      [] e.type = "memory_allocated" ->
            devs[e.id] # NoRow /\ devs[e.id].allocated_memory_mb = e.val
      [] OTHER -> TRUE

\* C8 (as claimed): when a device event is sent, the devices table already
\* holds the device in the state the event reports.
C8_EventAfterPersist ==
    [][\A n \in (Len(bus) + 1)..Len(bus') : Reflects(bus'[n], devices')]_vars

\* C9 (as claimed): an approve or allocate that returns an error has left
\* the tables as they were.
C9_AllOrNothing ==
    (prev.op \in {"approve", "allocate"} /\ ~prev.ok) => ~prev.dirty

\* C10: a register that directly follows a register of the same address
\* returns the same id and sends no event; after it that address has one
\* row, the one found, changed in last_seen only, which has not gone back.
C10_RegisterTwiceSameDevice ==
    (prev.op = "register" /\ prev.after.ip = prev.ip) =>
        /\ prev.ok
        /\ prev.ret = prev.after.ret
        /\ prev.sent = 0
        /\ ~prev.stray
        /\ Quiet =>
             /\ ids_by_ip(devices, prev.ip) = {prev.ret}
             /\ [devices[prev.ret] EXCEPT !.last_seen = prev.found.last_seen]
                   = prev.found
             /\ devices[prev.ret].last_seen >= prev.found.last_seen

\* the second register has returned and last_seen has moved forward
C10_Witness ==
    /\ prev.op = "register" /\ prev.after.ip = prev.ip /\ prev.ok
    /\ Quiet
    /\ devices[prev.ret].last_seen > prev.found.last_seen

\* C11 (as claimed): the status of a device row moves only along the edges
\* of the lifecycle: a row becomes approved only when it is inserted or from
\* pending, and becomes denied only from pending.
C11_LifecycleEdges ==
    [][\A i \in DevIds :
         /\ (devices'[i].status = "approved" /\ devices[i].status # "approved")
               => devices[i].status \in {"absent", "pending"}
         /\ (devices'[i].status = "denied" /\ devices[i].status # "denied")
               => devices[i].status = "pending"]_vars

\* C12 (as claimed): when start-inference has launched the engine, every
\* endpoint it resolved and passed on came from a device row whose status
\* was approved at the time of the lookup.
C12_PeersApprovedWhenResolved ==
    (slast.op = "start_inference" /\ slast.ret = "ok") =>
        \A n \in 1..Len(slast.call.resolved) :
            slast.call.resolved[n] = "approved"

\* ========================================================== planner claims
\* floor(0.90 * mb) and round(num / den), in exact arithmetic
Floor90(mb) == (9 * mb) \div 10
RoundExact(num, den) == (2 * num + den) \div (2 * den)

\* the layer table as the claim words it
TableLayers(mb) ==
    CASE mb < 2048 -> 22
      [] mb >= 2048 /\ mb < 5120 -> 32
      [] mb >= 5120 /\ mb < 9216 -> 40
      [] mb >= 9216 /\ mb < 20480 -> 48
      [] mb >= 20480 /\ mb < 40960 -> 64
      [] OTHER -> 80

\* C13: for every size > 0, local-free value and peer list the verdict is
\* that of the ordered decision: fits-locally if size <= floor(0.90 * local);
\* else fits-distributed if size <= floor(0.90 * total) and the peers' sum is
\* positive; else partial-gpu if size <= total; else too-large.
C13_VerdictOrdered ==
    analysis.ok =>
        LET size == analysis.size
            local == analysis.local
            cluster == Sum(analysis.peers)
            total == local + cluster
        IN  /\ size > 0
            /\ analysis.fit_status =
                 IF size <= Floor90(local) THEN "FitsLocally"
                 ELSE IF size <= Floor90(total) /\ cluster > 0
                 THEN "FitsDistributed"
                 ELSE IF size <= total THEN "PartialGpu"
                 ELSE "TooLarge"

\* an analysis has returned fits-distributed
C13_Witness ==
    /\ analysis.ok
    /\ analysis.fit_status = "FitsDistributed"
    /\ analysis.size > Floor90(analysis.local)

\* C14 (as claimed): the recommended GPU-layer count is -1 for fits-locally,
\* round(layers * local / total) for fits-distributed,
\* round(layers * min(1, local / size)) for partial-gpu and 0 for too-large,
\* layers being the table's estimate for the size.
C14_RecommendedLayers ==
    analysis.ok =>
        LET size == analysis.size
            local == analysis.local
            total == local + Sum(analysis.peers)
            layers == TableLayers(size)
        IN  /\ analysis.estimated_layers = layers
            /\ analysis.recommended_n_gpu_layers =
                 CASE analysis.fit_status = "FitsLocally" -> -1
                   [] analysis.fit_status = "FitsDistributed" ->
                        RoundExact(layers * local, total)
                   [] analysis.fit_status = "PartialGpu" ->
                        IF local >= size THEN layers
                        ELSE RoundExact(layers * local, size)
                   [] OTHER -> 0

\* C15: a successful analysis recommends -1 or a layer count between 0 and
\* the estimated layer count.
C15_LayersInRange ==
    analysis.ok =>
        \/ analysis.recommended_n_gpu_layers = -1
        \/ /\ analysis.recommended_n_gpu_layers >= 0
           /\ analysis.recommended_n_gpu_layers <= analysis.estimated_layers

\* a partial-gpu analysis whose local memory exceeds the model size has
\* recommended every layer
C15_Witness ==
    /\ analysis.ok
    /\ analysis.fit_status = "PartialGpu"
    /\ analysis.local > analysis.size
    /\ analysis.recommended_n_gpu_layers = analysis.estimated_layers

\* C16: the warnings agree with the verdict: too-large recommends 0 layers
\* and warns; partial-gpu warns, with the add-devices warning exactly when
\* the peers' sum is 0; the two fitting verdicts carry no warning.
C16_WarningsAgree ==
    analysis.ok =>
        /\ analysis.fit_status = "TooLarge" =>
             /\ analysis.recommended_n_gpu_layers = 0
             /\ analysis.warnings # <<>>
        /\ analysis.fit_status = "PartialGpu" =>
             /\ analysis.warnings # <<>>
             /\ (\E n \in 1..Len(analysis.warnings) :
                    analysis.warnings[n] = "add_cluster_devices")
                  <=> (analysis.cluster_free_mb = 0)
        /\ analysis.fit_status \in {"FitsLocally", "FitsDistributed"} =>
             analysis.warnings = <<>>

\* a partial-gpu analysis with peers has returned the tight-memory warning
C16_Witness ==
    /\ analysis.ok
    /\ analysis.fit_status = "PartialGpu"
    /\ analysis.cluster_free_mb > 0
    /\ analysis.warnings = <<"very_tight">>

\* ============================================================ path claims
\* the path ends in `.gguf`, letters compared without case
EndsInGguf(p) ==
    /\ Len(p) >= 5
    /\ [k \in 1..5 |-> to_ascii_lowercase(p[Len(p) - 5 + k])]
         = <<".", "g", "g", "u", "f">>

\* C17 (as claimed): a path is rejected iff it is empty, not absolute,
\* contains `..`, does not end in `.gguf` (case-insensitively) or begins
\* with a protected prefix; every other path is accepted.
C17_RejectsIff ==
    checked.called =>
        LET p == checked.path
        IN  (~checked.ok) <=>
               \/ p = <<>>
               \/ p[1] # "/"
               \/ contains_dotdot(p)
               \/ ~EndsInGguf(p)
               \/ \E pre \in disallowed : starts_with(p, pre)

\* =========================================================== proxy claims
\* the proxy request `op` has returned; what it read is still in http
Returned(op) == http.pc = "idle" /\ http.op = op

LocalNotRunning == http.backend_type = "llamacpp" /\ ~http.running
NoBackendUrl == http.backend_type # "llamacpp" /\ http.backend_url = ""

\* C18: chat-completions answers 503, without a request to any upstream,
\* when the type is local and the engine is not running; 503 when the type
\* is not local and backend_url is empty; 502 when the upstream request
\* fails; and the upstream's status in every other case.
C18_ChatStatus ==
    Returned("chat_completions_proxy") =>
        IF LocalNotRunning
        THEN http.resp.status = 503 /\ http.upstream = NotContacted
        ELSE IF NoBackendUrl THEN http.resp.status = 503
        ELSE IF http.upstream = NetErr THEN http.resp.status = 502
        ELSE /\ http.upstream \in UpstreamStatuses
             /\ http.resp.status = http.upstream

\* a chat-completions request whose upstream request failed has returned
C18_Witness ==
    /\ Returned("chat_completions_proxy")
    /\ http.upstream = NetErr
    /\ http.resp.status = 502

\* C19 (as claimed): list-models answers 200 with the empty list whenever
\* the local engine is not running, no backend url is configured, or the
\* upstream request fails.
C19_ModelsEmptyList ==
    (Returned("models_proxy")
     /\ (LocalNotRunning \/ NoBackendUrl \/ http.upstream = NetErr)) =>
        http.resp = EmptyList

\* ================================================== backend config claims
\* C20: when GET /api/backends/config returns, its body carries no api_key,
\* none of its fields is the stored key, and api_key_set is true iff a
\* non-empty key is stored.
C20_KeyNeverEchoed ==
    [][(http.pc = "get_key" /\ http'.pc = "idle") =>
         LET stored == settings'["backend_api_key"]
             body == http'.resp.config
         IN  /\ body.api_key = "none"
             /\ body.api_key_set <=> stored \notin {"absent", ""}
             /\ stored \notin {"absent", ""} =>
                  stored \notin {body.backend_type, body.url, body.model}]_vars

\* a GET has answered api_key_set = true while a key is stored
C20_Witness ==
    /\ http.pc = "idle" /\ http.op = "get_backend_config"
    /\ http.resp.config.api_key_set
    /\ settings["backend_api_key"] = "k1"

\* C21: POST /api/backends/config never changes the stored key when its
\* api_key is absent, empty or the placeholder; with any other value the
\* stored key is that value once the request has been answered 200, and no
\* step of the request stores anything else.
C21_KeyKeptOrReplaced ==
    [][(http'.op = "set_backend_config" /\ http' # http) =>
         LET sent == http'.cfg.api_key
             before == settings["backend_api_key"]
             after == settings'["backend_api_key"]
         IN  IF sent \in {"none", "", "****"}
             THEN after = before
             ELSE /\ after \in {before, sent}
                  /\ (http'.pc = "idle" /\ http'.resp.status = 200) =>
                        after = sent]_vars

\* a POST carrying the placeholder was answered 200 while a key is stored
C21_Witness ==
    /\ http.pc = "idle" /\ http.op = "set_backend_config"
    /\ http.resp.status = 200
    /\ http.cfg.api_key = "****"
    /\ settings["backend_api_key"] = "k1"

\* ============================================================= bus claims
\* the entries recv handed to subscriber s, by their place in got
Delivered(s) == {i \in 1..Len(subs[s].got) : subs[s].got[i].kind = "event"}
Lags(s) == {i \in 1..Len(subs[s].got) : subs[s].got[i].kind = "lagged"}

\* C22: a subscriber gets the events sent after it subscribed, in the order
\* of the bus; an entry it was not handed lies in a gap that a lag result
\* reported before the next event it was handed, the gap holding only
\* overwritten entries; and entries it has not read yet are still ahead of
\* it (it reads on), unless its own client went away.
C22_SubscriberSeesBusInOrder ==
    \A s \in SubIds :
      LET r == subs[s]
          g == r.got
      IN  r.state # "none" =>
            /\ \A i \in Delivered(s) :
                  /\ g[i].pos > r.start
                  /\ g[i].event = bus[g[i].pos]
                  /\ \A j \in Delivered(s) : i < j => g[i].pos < g[j].pos
            /\ \A n \in (r.start + 1)..r.next :
                  \/ \E i \in Delivered(s) : g[i].pos = n
                  \/ \E k \in Lags(s) :
                        /\ g[k].pos - g[k].n < n /\ n <= g[k].pos
                        /\ g[k].pos + Capacity <= Len(bus)
                        /\ \A j \in Delivered(s) : g[j].pos > n => k < j
            /\ (r.why # "client" /\ r.next < Len(bus)) => r.state = "open"

\* ========================================= supervisor claims: observation
\* the events one observation sends for the children it looks at
ObservedEvents(agent, engine) ==
    (IF agent /\ ReapRpc THEN <<Event("rpc_server_offline", 0, 0)>>
     ELSE <<>>)
    \o (IF engine /\ ReapInf
        THEN <<Event("inference_stopped", current_session, 0)>> ELSE <<>>)

\* what an observation of the given children must have done
Observed(agent, engine) ==
    /\ (agent /\ ReapRpc) => rpc_process' = NoChild
    /\ (engine /\ ReapInf) => inference_process' = NoChild
                               /\ current_session' = 0
    /\ bus' = bus \o ObservedEvents(agent, engine)

\* no handle is left for a child that had exited when the step began
NoExitedHandle ==
    /\ rpc_process' # NoChild => rpc_process' \in alive
    /\ inference_process' # NoChild => inference_process' \in alive

\* C23: a status query or a watchdog tick that finds a held child exited
\* clears its handle (and the session, for the engine) and sends exactly
\* one matching event; and when a status query (get_status,
\* is_rpc_running, is_inference_running) has returned, no handle is held
\* for a child that had exited before the query began.
C23_StatusQueryReaps ==
    [][/\ get_status => Observed(TRUE, TRUE) /\ NoExitedHandle
       /\ WatchdogTick => Observed(TRUE, TRUE)
       /\ is_rpc_running => Observed(TRUE, FALSE) /\ NoExitedHandle
       /\ is_inference_running => Observed(FALSE, TRUE) /\ NoExitedHandle]_vars

\* the supervisor holds the handle of a child that has exited
ExitedHeld(child) == child # NoChild /\ try_wait_exited(child)

\* C24: once a held child has exited, the service by itself comes to a
\* state where it no longer holds that handle (nor, for the engine, a
\* session without a live engine), without any status query.
C24_ExitedChildReaped ==
    /\ ExitedHeld(rpc_process) ~> ~ExitedHeld(rpc_process)
    /\ ExitedHeld(inference_process) ~> ~ExitedHeld(inference_process)

\* ============================================ supervisor claims: start/stop
\* caller c passes the pre-clear of start_rpc_server
PassesPreclear(c) == spc[c] = "idle" /\ spc'[c] = "rpc_lock"

\* caller c passes the handle check of start_rpc_server
PassesHandleCheck(c) == spc[c] = "rpc_lock" /\ spc'[c] # "rpc_lock"

\* C25: start_rpc_server called while an agent handle is held is a no-op:
\* the running agent is still alive after the pre-clear, and the handle
\* check returns Ok with nothing spawned, no event sent and the handle and
\* the agent as they were.
C25_StartAgentNoOp ==
    [][\A c \in SupCallers :
         /\ (PassesPreclear(c) /\ rpc_process # NoChild
             /\ rpc_process \in alive) => rpc_process \in alive'
         /\ (PassesHandleCheck(c) /\ rpc_process # NoChild) =>
               /\ spc'[c] = "idle"
               /\ slast'.op = "start_rpc_server" /\ slast'.ret = "ok"
               /\ nextChild' = nextChild
               /\ bus' = bus
               /\ rpc_process' = rpc_process
               /\ alive' = alive]_vars

\* a start call for the agent / the engine is past its first await
StartingAgent == \E c \in SupCallers : spc[c] \in {"rpc_lock", "rpc_sleep"}
StartingEngine == \E c \in SupCallers : spc[c] \in {"inf_lock", "inf_locked"}

\* the types of the events a step sends
SentTypes == {bus'[i].type : i \in (Len(bus) + 1)..Len(bus')}

\* C26: the supervisor never respawns a child on its own: while no start
\* call for the agent is in progress, an absent agent handle stays absent
\* and no rpc_server_ready is sent; likewise the engine handle and
\* inference_started while no start-engine call is in progress.
C26_NoRespawnWithoutStart ==
    [][/\ ~StartingAgent =>
            /\ rpc_process = NoChild => rpc_process' = NoChild
            /\ "rpc_server_ready" \notin SentTypes
       /\ ~StartingEngine =>
            /\ inference_process = NoChild => inference_process' = NoChild
            /\ "inference_started" \notin SentTypes]_vars

\* the agent was reaped or stopped last, no handle is held and no call is
\* in progress
C26_Witness ==
    /\ Len(bus) > 1
    /\ bus[Len(bus)].type = "rpc_server_offline"
    /\ rpc_process = NoChild
    /\ \A c \in SupCallers : spc[c] = "idle"

\* a start_inference call returns r on this step
StartEngineReturns(r) ==
    /\ slast' # slast
    /\ slast'.op = "start_inference"
    /\ slast'.ret = r

\* C27: a start_inference call that returns an error leaves the supervisor
\* as it was: the engine and the session the call found are still there,
\* the engine alive, and no inference_stopped was sent for that session.
C27_FailedStartKeepsEngine ==
    [][/\ (StartEngineReturns("err_path")
           \/ StartEngineReturns("err_not_found")) =>
             UNCHANGED <<rpc_process, inference_process, current_session,
                         mutex, alive, bus>>
       /\ StartEngineReturns("err_spawn") =>
             LET old == slast'.call.old
                 oldSession == slast'.call.oldSession
             IN  /\ inference_process' = old
                 /\ current_session' = oldSession
                 /\ old # NoChild => old \in alive'
                 /\ \A i \in 1..Len(bus') :
                       bus'[i].type = "inference_stopped" =>
                          bus'[i].id # oldSession]_vars

\* ============================================ supervisor claims: the bus
\* the places of the bus where a session other than s is announced
OtherStarts(s) ==
    {n \in 1..Len(bus) : bus[n].type = "inference_started" /\ bus[n].id # s}

\* C28: every session id on the bus has exactly one inference_started and at
\* most one inference_stopped, the stop after the start; and before the
\* next inference_started of another session the session's one
\* inference_stopped has been sent.
C28_SessionEventsPaired ==
    /\ \A n \in 1..Len(bus) :
          bus[n].type \in {"inference_started", "inference_stopped"} =>
             bus[n].id \in 1..nextSession
    /\ \A s \in 1..nextSession :
          LET started == Positions("inference_started", s)
              stopped == Positions("inference_stopped", s)
          IN  /\ Cardinality(started) = 1
              /\ Cardinality(stopped) <= 1
              /\ \A i \in started, j \in stopped : i < j
              /\ \A i \in started, k \in OtherStarts(s) :
                    i < k => \E j \in stopped : i < j /\ j < k

\* two sessions were started one after the other and both were stopped
C28_Witness ==
    /\ nextSession = 2
    /\ Positions("inference_stopped", 1) # {}
    /\ Positions("inference_stopped", 2) # {}

\* the places of the bus that hold an agent event
AgentEvents ==
    {n \in 1..Len(bus) :
        bus[n].type \in {"rpc_server_ready", "rpc_server_offline"}}

\* the agent event sent last is rpc_server_ready
LastAgentEventReady ==
    \E n \in AgentEvents :
       /\ bus[n].type = "rpc_server_ready"
       /\ \A m \in AgentEvents : m <= n

\* C29: rpc_server_ready and rpc_server_offline alternate on the bus, the
\* first being ready; and while no start_rpc_server call is in progress the
\* last of them is ready exactly when an agent handle is held.
C29_AgentEventsAlternate ==
    /\ \A n \in AgentEvents :
          (\A m \in AgentEvents : n <= m) => bus[n].type = "rpc_server_ready"
    /\ \A n, m \in AgentEvents :
          (n < m /\ \A k \in AgentEvents : ~(n < k /\ k < m)) =>
             bus[n].type # bus[m].type
    /\ (\A c \in SupCallers : spc[c] \notin {"rpc_lock", "rpc_sleep"}) =>
          (LastAgentEventReady <=> rpc_process # NoChild)

\* ========================================= supervisor claims: termination
\* C30: every supervisor call that was accepted returns and a held mutex is
\* released; a caller holding the mutex is not waiting for it, and
\* start_rpc_server does not hold it during its 700 ms wait.
C30_CallsComplete ==
    /\ [](\A c \in SupCallers :
             /\ mutex = c => spc[c] = "inf_locked"
             /\ spc[c] = "rpc_sleep" => mutex # c)
    /\ (mutex # 0) ~> (mutex = 0)
    /\ \A c \in SupCallers : (spc[c] # "idle") ~> (spc[c] = "idle")

\* one caller holds the mutex while another waits for it
C30_Witness ==
    \E c, d \in SupCallers :
       /\ mutex = c
       /\ spc[d] \in {"rpc_lock", "rpc_sleep", "inf_lock"}

\* C31: the session in the answer of a successful start-inference request is
\* the session that request created, whatever ran beside it
C31_AnswerNamesOwnSession ==
    (slast.op = "api_start_inference" /\ slast.ret = "ok") =>
        slast.call.response = slast.call.session

\* the registration events on the bus about one address
RegistrationEvents(ip) ==
    {n \in 1..Len(bus) :
        /\ bus[n].type \in {"device_pending_approval", "device_approved"}
        /\ bus[n].val = ip}

\* C32: with registrations only, however they interleave, an address has at
\* most one row and at most one registration event, and the id a register
\* call returned is the id of the row stored for its address
C32_OneRecordPerAddress ==
    \A ip \in Addrs :
       /\ Cardinality(ids_by_ip(devices, ip)) <= 1
       /\ Cardinality(RegistrationEvents(ip)) <= 1
       /\ (prev.op = "register" /\ prev.ok /\ prev.ip = ip) =>
             ids_by_ip(devices, ip) = {prev.ret}

\* a start-inference request is answered with a rejection on this step
StartRejected(r) ==
    /\ slast' # slast
    /\ slast'.op = "api_start_inference"
    /\ slast'.ret = r

\* the children, the session and the bus are as they were
EngineUntouched ==
    UNCHANGED <<rpc_process, inference_process, current_session, alive, bus>>

\* the frame part alone: a rejected request changes nothing of the engine
RejectedStartFrame ==
    [][\A r \in {"400_path", "400_too_many", "400_not_found"} :
          StartRejected(r) => EngineUntouched]_vars

\* C33: a start-inference request rejected for its path, for more than 20
\* peer ids, or for a peer id without a device (answered as not-found, 404)
\* leaves the children, the session and the bus as they were
C33_RejectedStartLeavesEngine ==
    [][/\ \A r \in {"400_path", "400_too_many", "400_not_found"} :
            StartRejected(r) => EngineUntouched
       /\ StartRejected("400_not_found") => ApiStatus(slast'.ret) = 404]_vars

\* C34: a lag result never ends a subscriber: a subscriber that was handed a
\* lag result is still reading, or ended later on a failed write to its
\* own client
C34_LagNeverEndsSubscriber ==
    \A s \in SubIds :
       \A k \in Lags(s) :
          \/ subs[s].state = "open"
          \/ subs[s].why = "client" /\ k < Len(subs[s].got)

\* the auto-register task was handed the bus entry n; its loop body calls
\* register_device with the address of a DeviceDiscovered it is handed
Registered(n) == \E i \in Delivered(0) : subs[0].got[i].pos = n

\* C35: every DeviceDiscovered put on the bus after browsing started is
\* eventually handed to the auto-register task (which then calls
\* register_device for its address)
C35_DiscoveredIsRegistered ==
    \A n \in 1..MaxEvents :
       (Len(bus) >= n /\ bus[n].type = "device_discovered") ~> Registered(n)

\* C36: once either task of a connection has exited, eventually both have,
\* and with send_task its bus receiver
C36_BothTasksEnd ==
    \A s \in 1..MaxSubs :
       (subs[s].state = "ended" \/ subs[s].reader = "done")
          ~> (subs[s].state = "ended" /\ subs[s].reader = "done")

\* a probe of the device in slot p answers on this step
ProbeAnswers(p) == req[p].pc = "probe" /\ req'[p].pc = "idle"

\* C37: a probe that connects leaves the device's stored reachability at
\* ready; a probe that fails leaves the devices table as it was
C37_FailedProbeKeepsStored ==
    [][\A p \in Reqs :
          ProbeAnswers(p) =>
             IF prev'.ok
             THEN devices'[prev'.ret].rpc_status \in {"ready", "none"}
             ELSE devices' = devices]_vars

\* the settings table with another non-empty key stored
WithKey(k) == [settings EXCEPT !["backend_api_key"] = k]

\* the part of the claim about GET /api/backends/config alone
ConfigHidesKey ==
    settings["backend_api_key"] \notin {"absent", ""} =>
       \A k \in KeyValues :
          get_backend_config(WithKey(k)) = get_backend_config(settings)

\* C38: while a non-empty key is stored, GET /api/settings and GET
\* /api/backends/config answer the same whatever the key's value is
C38_KeyDoesNotInfluenceReads ==
    settings["backend_api_key"] \notin {"absent", ""} =>
       \A k \in KeyValues :
          /\ list_settings(WithKey(k)) = list_settings(settings)
          /\ get_backend_config(WithKey(k)) = get_backend_config(settings)

\* C39: the allocated MB stored for a device is never negative, whatever
\* integer an allocate request asks for
C39_AllocatedNonNegative ==
    \A i \in DevIds : devices[i].allocated_memory_mb >= 0

\* the part of the claim that holds: no provider is answered with more than
\* its own total_mb
AllocatedWithinTotal ==
    stats.called =>
       \A i \in 1..Len(stats.totals) : stats.allocated[i] <= stats.totals[i]

\* C40: when the allocated total fits into the providers' grand total, every
\* provider but the last is answered its proportional share, the last is
\* answered what remains (the answers add up to the allocated total), and
\* no provider is answered more than its own total_mb
C40_SharesAddUp ==
    LET total == total_allocated(stats.rows)
        n == Len(stats.totals)
    IN  (stats.called /\ total > 0 /\ total <= Sum(stats.totals)) =>
          /\ \A i \in 1..(n - 1) :
                stats.allocated[i]
                   = (total * stats.totals[i]) \div Sum(stats.totals)
          /\ Sum(stats.allocated) = total
          /\ \A i \in 1..n : stats.allocated[i] <= stats.totals[i]
====
